---------------------------- MODULE Spec2Model ----------------------------
(***************************************************************************)
(* A model of the validation engine of transport-validator: the           *)
(* orchestrator (validate.rs), the issue value object (issues.rs), the     *)
(* visualization enricher (visualization.rs), the metadata extractor       *)
(* (metadatas.rs) and the speed rule (validators/duration_distance.rs).    *)
(*                                                                         *)
(* Option<T> is modelled as a sequence: None is <<>>, Some(x) is <<x>>.    *)
(* Result<T, E> is a pair: <<"Ok", value>> or <<"Err", error>>.             *)
(* Identifiers (String) are tuples, the empty string being <<>>.           *)
(***************************************************************************)
EXTENDS Integers, Sequences, FiniteSets, TLC

VARIABLES
    pc,          \* position of the orchestrator in process / validate_and_metadata
    raw_gtfs,    \* the parser's result handed to process: Result<RawGtfs, Error>
    max_issues,  \* the max_issues argument
    issues,      \* the local issue vector of validate_and_metadata
    raw_out,     \* history: the issues returned by the raw-level chain
    metadata,    \* Some(the local `metadata` of validate_and_metadata), None before line 61
    gtfs,        \* Some(Gtfs::try_from(rgtfs)), None before the attempt
    response     \* Some(the Response returned), None before the return

orchVars == <<pc, raw_gtfs, max_issues, issues, raw_out, metadata, gtfs, response>>

VARIABLES
    sp_pc,       \* position in duration_distance::validate / validate_speeds
    sp_gtfs,     \* the linked model the speed rule reads: trips with stop times, routes
    sp_rules,    \* the CustomRules argument
    sp_todo,     \* the trips the loop over gtfs.trips.values() has not visited yet
    sp_map,      \* the local issues_by_stops_and_type
    sp_result,   \* Some(what validate_speeds returned), None before
    sp_issues,   \* Some(what validate returned), None before
    sp_run,      \* 1 during the first validation of the feed, 2 during the second
    sp_first     \* history: Some(what validate returned in the first validation)

speedVars == <<sp_pc, sp_gtfs, sp_rules, sp_todo, sp_map, sp_result, sp_issues, sp_run, sp_first>>

VARIABLES
    kind_in,     \* a pair of consecutive stop times, the route type and the custom rules
    kind_out     \* Some(the issue kind computed for it), None before

kindVars == <<kind_in, kind_out>>

VARIABLES
    rule_in,     \* the feed handed to one rule module examined on its own
    rule_out     \* Some(the Vec<Issue> the rule returned), None before

ruleVars == <<rule_in, rule_out>>

\* no rule module is being examined on its own
RuleIdle == rule_in = <<>> /\ rule_out = <<>>

vars == <<orchVars, speedVars, kindVars, ruleVars>>

---------------------------------------------------------------------------
(* Bounds of the model *)

MaxIssuesTotal == 2   \* issues emitted by all the rules of one validation
MaxMaxIssues == 2     \* largest max_issues argument tried
MaxStopTimes == 2     \* stop times of a trip given to the speed rule
StepSeconds == 60     \* time between two consecutive stop times of such a trip

---------------------------------------------------------------------------
(* Option and small helpers *)

None == <<>>
Some(x) == <<x>>
IsSome(o) == o # <<>>
Unwrap(o) == o[1]

Min(a, b) == IF a < b THEN a ELSE b
Max(a, b) == IF a > b THEN a ELSE b

Range(s) == {s[i] : i \in DOMAIN s}

\* Vec::truncate(len): keeps the first len elements, no effect when len >= s.len()
Truncate(s, len) == SubSeq(s, 1, Min(Len(s), len))

\* the empty String
EmptyId == <<>>

---------------------------------------------------------------------------
(* issues.rs: the Issue value object.  The field `rule` is a history field *)
(* naming the rule module that emitted the issue; the program has no such  *)
(* field and nothing in the model reads it except the properties.          *)

Fatal == "Fatal"
Error == "Error"
Warning == "Warning"
Information == "Information"
Severity == {Fatal, Error, Warning, Information}

IssueNew(severity, issue_type, id) ==
    [severity |-> severity, issue_type |-> issue_type, object_id |-> id,
     object_type |-> None, object_name |-> None, related_objects |-> <<>>,
     details |-> None, related_file |-> None, geojson |-> None, rule |-> ""]

\* o is an object with an id, an object type and a display name
IssueNewWithObj(severity, issue_type, o) ==
    [severity |-> severity, issue_type |-> issue_type, object_id |-> o.id,
     object_type |-> Some(o.object_type), object_name |-> Some(o.name),
     related_objects |-> <<>>,
     details |-> None, related_file |-> None, geojson |-> None, rule |-> ""]

WithDetails(issue, d) == [issue EXCEPT !.details = Some(d)]
WithName(issue, d) == [issue EXCEPT !.object_name = Some(d)]
WithObjectType(issue, t) == [issue EXCEPT !.object_type = Some(t)]

PushRelatedObject(issue, o) ==
    [issue EXCEPT !.related_objects =
        Append(@, [id |-> o.id, name |-> Some(o.name), object_type |-> Some(o.object_type)])]

AddRelatedObject(issue, o) == PushRelatedObject(issue, o)

EmittedBy(rule, issue) == [issue EXCEPT !.rule = rule]


---------------------------------------------------------------------------
(* Objects of the feed the rules report on.  Obj(t, n) is the n-th object  *)
(* of GTFS object type t: its id, its type and its display name.           *)

Obj(t, n) == [id |-> <<t, n>>, object_type |-> t, name |-> <<"name", t, n>>]

(***************************************************************************)
(* What each rule module can emit.  Every rule is a function of the feed   *)
(* returning a Vec<Issue>; the orchestrator only chains these vectors, so  *)
(* a rule is represented here by the issue shapes its code builds          *)
(* (severity, issue type, subject, related objects, details), each with    *)
(* the stage of the rule's internal chain that builds it.  Stages are      *)
(* numbered in the order of the orchestrator's chain and, within a rule,   *)
(* in the order of the rule's own chain; shapes collected from a hash map  *)
(* share a stage, since their relative order is the map's.                 *)
(* n is the ordinal of the object concerned among those of its shape.      *)
(***************************************************************************)

Kind(stage, single, issue) == [stage |-> stage, single |-> single, issue |-> issue]

\* validators/raw_gtfs.rs
raw_gtfs_kinds(n) ==
    LET dup(t) == WithObjectType(IssueNew(Error, "DuplicateObjectId", <<t, n>>), t)
    IN << Kind(11, FALSE, dup("Stop")),
          Kind(12, FALSE, dup("Route")),
          Kind(18, FALSE, WithDetails(dup("Shape"), "Shape has duplicated pt_sequence")) >>

\* validators/invalid_reference.rs
check_ref_issue(id, object_type) ==
    WithObjectType(IssueNew(Fatal, "InvalidReference", id), object_type)

invalid_reference_kinds(n) ==
    << Kind(21, FALSE, WithDetails(check_ref_issue(<<"Stop", n>>, "Stop"),
                "The stop is referenced by a stop time but does not exist")),
       Kind(22, FALSE, AddRelatedObject(WithDetails(check_ref_issue(<<"Route", n>>, "Route"),
                "The route is referenced by a trip but does not exist"), Obj("Trip", n))),
       Kind(24, FALSE, AddRelatedObject(WithDetails(check_ref_issue(<<"Stop", n>>, "Stop"),
                "The stop is referenced as a stop's parent_station but does not exist"),
                Obj("Stop", n + 10))) >>

\* validators/file_presence.rs
file_presence_kinds(n) ==
    << Kind(31, FALSE, WithDetails(IssueNew(Fatal, "MissingMandatoryFile", <<"file", n>>),
                "The mandatory file was not found")),
       Kind(32, FALSE, WithDetails(IssueNew(Information, "ExtraFile", <<"file", n + 10>>),
                "This file shouldn't be in the archive")) >>

\* validators/sub_folder.rs
sub_folder_kinds(n) ==
    << Kind(41, TRUE, WithDetails(IssueNew(Error, "SubFolder", <<"folder", n>>),
                "Data is contained in sub solder")) >>

\* validators/unused_stop.rs
unused_stop_kinds(n) ==
    << Kind(51, FALSE, IssueNewWithObj(Information, "UnusedStop", Obj("Stop", n))) >>

\* validators/duration_distance.rs: validate, with the issues of validate_speeds
\* (subject the departure stop, first related object the arrival stop, then a route)
\* or, when validate_speeds fails, the single Fatal issue of validate
duration_distance_kinds(n) ==
    LET speed(sev, t) ==
            PushRelatedObject(
                WithDetails(AddRelatedObject(IssueNewWithObj(sev, t, Obj("Stop", n)),
                                             Obj("Stop", n + 10)), "speed details"),
                Obj("Route", 1))
    IN << Kind(61, FALSE, speed(Information, "CloseStops")),
          Kind(61, FALSE, speed(Warning, "NullDuration")),
          Kind(61, FALSE, speed(Information, "ExcessiveSpeed")),
          Kind(61, FALSE, speed(Warning, "NegativeTravelTime")),
          Kind(61, FALSE, speed(Information, "Slow")),
          Kind(62, TRUE, IssueNew(Fatal, "InvalidReference", <<"error", 0>>)) >>

\* validators/check_name.rs
check_name_kinds(n) ==
    << Kind(71, FALSE, IssueNewWithObj(Error, "MissingName", Obj("Route", n))),
       Kind(72, FALSE, IssueNewWithObj(Error, "MissingName", Obj("Stop", n))),
       Kind(74, FALSE, IssueNew(Error, "MissingName", EmptyId)) >>

\* validators/check_id.rs
check_id_kinds(n) ==
    << Kind(81, FALSE, IssueNewWithObj(Warning, "IdNotAscii", Obj("Route", n))),
       Kind(84, FALSE, IssueNewWithObj(Error, "MissingId",
                [id |-> EmptyId, object_type |-> "Stop", name |-> <<"name", "Stop", n>>])),
       Kind(85, FALSE, WithObjectType(IssueNew(Error, "MissingId", EmptyId), "Shape")) >>

\* validators/stops.rs
stops_kinds(n) ==
    << Kind(91, FALSE, WithDetails(IssueNewWithObj(Warning, "MissingCoordinates", Obj("Stop", n)),
                "Latitude and longitude are missing")),
       Kind(92, FALSE, IssueNewWithObj(Error, "InvalidCoordinates", Obj("Stop", n))),
       Kind(93, FALSE, PushRelatedObject(
                WithDetails(IssueNewWithObj(Warning, "InvalidStopParent", Obj("Stop", n)),
                            "The parent of a stop point should be a stop area"),
                Obj("Stop", n + 10))) >>

\* validators/route_type.rs
route_type_kinds(n) ==
    << Kind(101, FALSE, WithDetails(IssueNewWithObj(Information, "InvalidRouteType", Obj("Route", n)),
                "The route type is not part of the main GTFS specification")) >>

\* the variant of shapes that reports a shape without coordinates as an Error
shapes_kinds_missing_as_error(n) ==
    << Kind(111, FALSE, WithObjectType(IssueNew(Error, "MissingCoordinates", <<"Shape", n>>), "Shape")),
       Kind(112, FALSE, WithObjectType(IssueNew(Error, "InvalidCoordinates", <<"Shape", n>>), "Shape")),
       Kind(113, FALSE, WithDetails(WithObjectType(IssueNew(Error, "InvalidShapeId", <<"Trip", n>>), "Trip"),
                "invalid shape id")),
       Kind(114, FALSE, WithObjectType(IssueNew(Information, "UnusedShapeId", <<"Shape", n>>), "Shape")),
       Kind(115, FALSE, IssueNewWithObj(Information, "NoShape", Obj("Trip", n))) >>

\* validators/shapes.rs
shapes_kinds(n) ==
    << Kind(111, FALSE, WithObjectType(IssueNew(Warning, "MissingCoordinates", <<"Shape", n>>), "Shape")),
       Kind(112, FALSE, WithObjectType(IssueNew(Error, "InvalidCoordinates", <<"Shape", n>>), "Shape")),
       Kind(113, FALSE, WithDetails(WithObjectType(IssueNew(Error, "InvalidShapeId", <<"Trip", n>>), "Trip"),
                "invalid shape id")),
       Kind(114, FALSE, WithObjectType(IssueNew(Information, "UnusedShapeId", <<"Shape", n>>), "Shape")),
       Kind(115, FALSE, IssueNewWithObj(Information, "NoShape", Obj("Trip", n))) >>

\* validators/agency.rs
agency_kinds(n) ==
    << Kind(121, FALSE, IssueNewWithObj(Error, "MissingUrl", Obj("Agency", n))),
       Kind(122, FALSE, WithDetails(IssueNewWithObj(Error, "InvalidUrl", Obj("Agency", n)),
                "The agency_url (in agency.txt) is invalid")),
       Kind(123, FALSE, IssueNewWithObj(Error, "InvalidTimezone", Obj("Agency", n))) >>

\* validators/calendar.rs
calendar_kinds(n) ==
    << Kind(131, TRUE, IssueNew(Warning, "NoCalendar", EmptyId)) >>

\* validators/duplicate_stops.rs
duplicate_stops_kinds(n) ==
    << Kind(141, FALSE, AddRelatedObject(IssueNewWithObj(Information, "DuplicateStops", Obj("Stop", n)),
                Obj("Stop", n + 10))) >>

\* validators/fare_attributes.rs
fare_attributes_kinds(n) ==
    LET make_issue(t) == WithObjectType(IssueNew(Error, t, <<"Fare", n>>), "Fare")
    IN << Kind(151, FALSE, make_issue("MissingPrice")),
          Kind(152, FALSE, make_issue("InvalidCurrency")),
          Kind(153, FALSE, make_issue("InvalidTransfers")),
          Kind(154, FALSE, make_issue("InvalidTransferDuration")) >>

\* validators/feed_info.rs
feed_info_kinds(n) ==
    LET make_issue(sev, t) == WithName(IssueNew(sev, t, EmptyId), <<"name", "FeedInfo", n>>)
    IN << Kind(161, FALSE, make_issue(Error, "MissingUrl")),
          Kind(162, FALSE, WithDetails(make_issue(Error, "InvalidUrl"),
                "The feed_publisher_url (in feed_info.txt) is invalid")),
          Kind(163, FALSE, make_issue(Warning, "MissingLanguage")),
          Kind(164, FALSE, WithDetails(make_issue(Warning, "InvalidLanguage"),
                "Language code does not exist")) >>

\* validators/stop_times.rs
stop_times_kinds(n) ==
    << Kind(171, FALSE, PushRelatedObject(
                WithDetails(IssueNewWithObj(Warning, "InvalidStopLocationTypeInTrip", Obj("Stop", n)),
                            "A StopArea cannot be referenced by a stop time"),
                Obj("Trip", 1))),
       Kind(172, FALSE, PushRelatedObject(PushRelatedObject(
                IssueNewWithObj(Error, "DuplicateStopSequence", Obj("Trip", n)),
                Obj("Stop", 1)), Obj("Stop", 2))),
       Kind(173, FALSE, WithDetails(IssueNewWithObj(Warning, "NegativeStopDuration", Obj("Trip", n)),
                "Departure time before arrival time at stop sequence")) >>

\* validators/interpolated_stoptimes.rs
interpolated_stoptimes_kinds(n) ==
    << Kind(181, FALSE, WithDetails(
                IssueNewWithObj(Warning, "ImpossibleToInterpolateStopTimes", Obj("Trip", n)),
                "The first and last stop time of a trip cannot have empty departure/arrivals")) >>

\* the variant of unusable_trip that reports its issue as Fatal
unusable_trip_kinds_fatal(n) ==
    << Kind(191, FALSE, IssueNewWithObj(Fatal, "UnusableTrip", Obj("Trip", n))) >>

\* validators/unusable_trip.rs
unusable_trip_kinds(n) ==
    << Kind(191, FALSE, IssueNewWithObj(Warning, "UnusableTrip", Obj("Trip", n))) >>

Tag(rule, kinds) ==
    [i \in DOMAIN kinds |-> [kinds[i] EXCEPT !.issue = EmittedBy(rule, @)]]

\* validate.rs, lines 55-60: the chain of the raw-level rules
RawChain(n) ==
    Tag("raw_gtfs", raw_gtfs_kinds(n))
    \o Tag("invalid_reference", invalid_reference_kinds(n))
    \o Tag("file_presence", file_presence_kinds(n))
    \o Tag("sub_folder", sub_folder_kinds(n))

\* validate.rs, lines 65-82: the chain of the linked-level rules
LinkedChain(n) ==
    Tag("unused_stop", unused_stop_kinds(n))
    \o Tag("duration_distance", duration_distance_kinds(n))
    \o Tag("check_name", check_name_kinds(n))
    \o Tag("check_id", check_id_kinds(n))
    \o Tag("stops", stops_kinds(n))
    \o Tag("route_type", route_type_kinds(n))
    \o Tag("shapes", shapes_kinds(n))
    \o Tag("agency", agency_kinds(n))
    \o Tag("calendar", calendar_kinds(n))
    \o Tag("duplicate_stops", duplicate_stops_kinds(n))
    \o Tag("fare_attributes", fare_attributes_kinds(n))
    \o Tag("feed_info", feed_info_kinds(n))
    \o Tag("stop_times", stop_times_kinds(n))
    \o Tag("interpolated_stoptimes", interpolated_stoptimes_kinds(n))
    \o Tag("unusable_trip", unusable_trip_kinds(n))

RawRules == <<"raw_gtfs", "invalid_reference", "file_presence", "sub_folder">>
LinkedRules == <<"unused_stop", "duration_distance", "check_name", "check_id", "stops",
                 "route_type", "shapes", "agency", "calendar", "duplicate_stops",
                 "fare_attributes", "feed_info", "stop_times", "interpolated_stoptimes",
                 "unusable_trip">>

(* The vectors a chain can return with at most `len` issues: sequences of  *)
(* shapes whose stages follow the chain, a feed-wide shape at most once,   *)
(* and the Fatal issue of duration_distance alone among that rule's.       *)
RECURSIVE StageSeqs(_, _, _)
StageSeqs(chain, from, len) ==
    IF len = 0 THEN {<<>>}
    ELSE {<<>>} \cup
         UNION { { <<k>> \o s : s \in StageSeqs(chain, chain[k].stage, len - 1) } :
                 k \in {j \in DOMAIN chain : chain[j].stage >= from} }

WellFormed(chain, ks) ==
    /\ \A i, j \in DOMAIN ks : (i < j /\ ks[i] = ks[j]) => ~chain[ks[i]].single
    /\ \A i, j \in DOMAIN ks :
         ~(chain[ks[i]].stage = 61 /\ chain[ks[j]].stage = 62)

Ordinal(ks, i) == Cardinality({j \in 1..i : ks[j] = ks[i]})

ChainOutputs(chain(_), len) ==
    { [i \in DOMAIN ks |-> chain(Ordinal(ks, i))[ks[i]].issue] :
        ks \in {s \in StageSeqs(chain(1), 0, len) : WellFormed(chain(1), s)} }


---------------------------------------------------------------------------
(* The feed as the parser hands it over (gtfs_structures::RawGtfs), and    *)
(* the linked model (gtfs_structures::Gtfs), restricted to the tables the  *)
(* metadata extractor and the visualization enricher read.  Dates are day  *)
(* numbers; coordinates are integers, one unit being the arc of one metre. *)

Ok(v) == <<"Ok", v>>
Err(e) == <<"Err", e>>
IsOk(result) == result[1] = "Ok"
Val(result) == result[2]

\* Result<Vec<_>, _>::as_ref().unwrap_or(&vec![])
RowsOr(result) == IF IsOk(result) THEN Val(result) ELSE <<>>
\* Option<Result<Vec<_>, _>>: .as_ref().and_then(|c| c.as_ref().ok()).unwrap_or(&vec![])
OptRowsOr(opt) == IF IsSome(opt) /\ IsOk(Unwrap(opt)) THEN Val(Unwrap(opt)) ELSE <<>>

Stop(n, location_type, lon, lat, parent, wheelchair) ==
    [id |-> <<"Stop", n>>, object_type |-> "Stop", name |-> <<"name", "Stop", n>>,
     location_type |-> location_type, longitude |-> lon, latitude |-> lat,
     parent_station |-> parent, wheelchair_boarding |-> wheelchair]

Agency(n) == [id |-> Some(<<"Agency", n>>), name |-> <<"name", "Agency", n>>]
Route(n, agency_id, route_type) ==
    [id |-> <<"Route", n>>, object_type |-> "Route", name |-> <<"name", "Route", n>>,
     agency_id |-> agency_id, route_type |-> route_type]
Trip(n, route_n, service_n) ==
    [id |-> <<"Trip", n>>, route_id |-> <<"Route", route_n>>, service_id |-> <<"Calendar", service_n>>]
Calendar(n, start_date, end_date) ==
    [id |-> <<"Calendar", n>>, start_date |-> start_date, end_date |-> end_date]
CalendarDate(n, date, exception_type) ==
    [service_id |-> <<"Calendar", n>>, date |-> date, exception_type |-> exception_type]

\* one agency, services in calendar.txt, two stops, the child inheriting wheelchair data
FeedSingleAgency ==
    [agencies |-> Ok(<<Agency(1)>>),
     stops |-> Ok(<<Stop(1, "StopPoint", Some(10), Some(20), Some(<<"Stop", 11>>), "InformationNotAvailable"),
                    Stop(11, "StopArea", Some(10), Some(25), None, "Available")>>),
     routes |-> Ok(<<Route(1, Some(<<"Agency", 1>>), "Bus")>>),
     trips |-> Ok(<<Trip(1, 1, 1)>>),
     calendar |-> Some(Ok(<<Calendar(1, 1, 15)>>)),
     calendar_dates |-> None]

\* two agencies, services in calendar_dates.txt only, a trip of an unknown route
FeedTwoAgencies ==
    [agencies |-> Ok(<<Agency(1), Agency(2)>>),
     stops |-> Ok(<<Stop(1, "StopPoint", Some(10), Some(20), None, "NotAvailable"),
                    Stop(2, "StopPoint", None, None, None, "InformationNotAvailable")>>),
     routes |-> Ok(<<Route(1, Some(<<"Agency", 1>>), "Bus"),
                     Route(2, Some(<<"Agency", 2>>), "Tramway")>>),
     trips |-> Ok(<<Trip(1, 1, 1), Trip(2, 2, 2), Trip(3, 9, 1)>>),
     calendar |-> None,
     calendar_dates |-> Some(Ok(<<CalendarDate(1, 3, "Added"), CalendarDate(1, 9, "Deleted"),
                                  CalendarDate(2, 7, "Added"), CalendarDate(2, 5, "Added")>>))]

\* stops.txt could not be read
FeedBrokenStops ==
    [FeedSingleAgency EXCEPT !.stops = Err("impossible to read csv file 'stops.txt'")]

RawFeeds == {FeedSingleAgency, FeedTwoAgencies, FeedBrokenStops}

\* the rows of a table keyed by id, a later row replacing an earlier one of the same id
MapById(rows) ==
    [id \in {rows[i].id : i \in DOMAIN rows} |->
        rows[CHOOSE i \in DOMAIN rows :
                /\ rows[i].id = id
                /\ \A j \in DOMAIN rows : rows[j].id = id => j <= i]]

\* gtfs_structures::Gtfs::try_from on success
GtfsOf(rgtfs) ==
    [agencies |-> Val(rgtfs.agencies),
     stops |-> MapById(Val(rgtfs.stops)),
     routes |-> MapById(Val(rgtfs.routes)),
     trips |-> MapById(Val(rgtfs.trips)),
     calendar |-> MapById(OptRowsOr(rgtfs.calendar)),
     calendar_dates |->
        LET rows == OptRowsOr(rgtfs.calendar_dates)
        IN [sid \in {rows[i].service_id : i \in DOMAIN rows} |->
                SelectSeq(rows, LAMBDA r : r.service_id = sid)]]

\* whether every table the linked model needs was read
Readable(rgtfs) ==
    /\ IsOk(rgtfs.agencies) /\ IsOk(rgtfs.stops) /\ IsOk(rgtfs.routes) /\ IsOk(rgtfs.trips)
    /\ IsSome(rgtfs.calendar) => IsOk(Unwrap(rgtfs.calendar))
    /\ IsSome(rgtfs.calendar_dates) => IsOk(Unwrap(rgtfs.calendar_dates))

(* The errors of gtfs_structures the orchestrator tells apart: whether the *)
(* error has a source (an inner error), and for a CSVError the file name   *)
(* and, when the position and the line in error are both known, the line.  *)
GtfsError(kind, text, inner, position, line_in_error) ==
    [kind |-> kind, text |-> text, inner |-> inner, file_name |-> "stops.txt",
     position |-> position, line_in_error |-> line_in_error]

LineInError == [headers |-> <<"stop_id", "stop_lat">>, values |-> <<"s", "baaaaaad_coord">>]

ModelErrors ==
    { GtfsError("CSVError", "impossible to read csv file", Some("CSV deserialize error"),
                Some(13), Some(LineInError)),
      GtfsError("CSVError", "impossible to read csv file", Some("CSV deserialize error"),
                None, Some(LineInError)),
      GtfsError("ReferentialIntegrity", "the id is not known", None, None, None) }

ParserErrors == {"file not found", "invalid zip archive"}

---------------------------------------------------------------------------
(* metadatas.rs *)

\* chrono::NaiveDate::format("%Y-%m-%d").to_string() and str::parse::<NaiveDate>()
FormatDate(d) == <<"date", d>>
ParseDate(str) == str[2]

\* itertools unique(): the first occurrence of each element, in order
Unique(s) ==
    LET firsts == {i \in DOMAIN s : \A j \in 1..(i - 1) : s[j] # s[i]}
        f[i \in 0..Len(s)] ==
            IF i = 0 THEN <<>>
            ELSE IF i \in firsts THEN Append(f[i - 1], s[i]) ELSE f[i - 1]
    IN f[Len(s)]

\* s.iter().map(f).collect() and s.iter().flat_map(f).collect()
MapSeq(s, f(_)) == [i \in DOMAIN s |-> f(s[i])]
FlatMap(s, f(_)) ==
    LET g[i \in 0..Len(s)] == IF i = 0 THEN <<>> ELSE g[i - 1] \o f(s[i])
    IN g[Len(s)]

\* itertools minmax().into_option()
MinMax(s) ==
    IF s = <<>> THEN None
    ELSE Some(<<CHOOSE x \in Range(s) : \A y \in Range(s) : x <= y,
                CHOOSE x \in Range(s) : \A y \in Range(s) : x >= y>>)

\* counts_objects
CountsObjects(result, p(_)) == IF IsOk(result) THEN Len(SelectSeq(Val(result), p)) ELSE 0

ModeName(route_type) ==
    CASE route_type = "Tramway" -> Some("tramway")
      [] route_type = "Subway" -> Some("subway")
      [] route_type = "Rail" -> Some("rail")
      [] route_type = "Bus" -> Some("bus")
      [] route_type = "Ferry" -> Some("ferry")
      [] route_type = "CableCar" -> Some("cable_car")
      [] route_type = "Gondola" -> Some("gondola")
      [] route_type = "Funicular" -> Some("funicular")
      [] route_type = "Coach" -> Some("coach")
      [] route_type = "Air" -> Some("air")
      [] route_type = "Taxi" -> Some("taxi")
      [] OTHER -> None

compute_stats(rgtfs) ==
    [stops_count |-> IF IsOk(rgtfs.stops) THEN Len(Val(rgtfs.stops)) ELSE 0,
     stop_areas_count |-> CountsObjects(rgtfs.stops, LAMBDA st : st.location_type = "StopArea"),
     stop_points_count |-> CountsObjects(rgtfs.stops, LAMBDA st : st.location_type = "StopPoint"),
     stops_with_wheelchair_info_count |-> None,
     routes_count |-> IF IsOk(rgtfs.routes) THEN Len(Val(rgtfs.routes)) ELSE 0,
     trips_count |-> IF IsOk(rgtfs.trips) THEN Len(Val(rgtfs.trips)) ELSE 0]

EmptyMap == [k \in {} |-> 0]

\* the variant that counts the removed exceptions of calendar_dates as well
extract_metadata_every_exception(rgtfs) ==
    LET start_end ==
            MinMax(FlatMap(OptRowsOr(rgtfs.calendar), LAMBDA c : <<c.start_date, c.end_date>>)
                   \o MapSeq(OptRowsOr(rgtfs.calendar_dates), LAMBDA c : c.date))
        stats == compute_stats(rgtfs)
    IN [start_date |-> IF IsSome(start_end) THEN Some(FormatDate(Unwrap(start_end)[1])) ELSE None,
        end_date |-> IF IsSome(start_end) THEN Some(FormatDate(Unwrap(start_end)[2])) ELSE None,
        stops_count |-> stats.stops_count,
        stats |-> stats,
        networks |-> Unique(MapSeq(RowsOr(rgtfs.agencies), LAMBDA a : a.name)),
        networks_start_end_dates |-> None,
        modes |-> Unique(FlatMap(RowsOr(rgtfs.routes), LAMBDA r : ModeName(r.route_type))),
        issues_count |-> EmptyMap]

extract_metadata(rgtfs) ==
    LET start_end ==
            MinMax(FlatMap(OptRowsOr(rgtfs.calendar), LAMBDA c : <<c.start_date, c.end_date>>)
                   \o MapSeq(SelectSeq(OptRowsOr(rgtfs.calendar_dates),
                                       LAMBDA cd : cd.exception_type = "Added"),
                             LAMBDA c : c.date))
        stats == compute_stats(rgtfs)
    IN [start_date |-> IF IsSome(start_end) THEN Some(FormatDate(Unwrap(start_end)[1])) ELSE None,
        end_date |-> IF IsSome(start_end) THEN Some(FormatDate(Unwrap(start_end)[2])) ELSE None,
        stops_count |-> stats.stops_count,
        stats |-> stats,
        networks |-> Unique(MapSeq(RowsOr(rgtfs.agencies), LAMBDA a : a.name)),
        networks_start_end_dates |-> None,
        modes |-> Unique(FlatMap(RowsOr(rgtfs.routes), LAMBDA r : ModeName(r.route_type))),
        issues_count |-> EmptyMap]

stops_with_wheelchair_info_count(g) ==
    Cardinality({ id \in DOMAIN g.stops :
        LET stop == g.stops[id]
        IN IF stop.wheelchair_boarding # "InformationNotAvailable"
           THEN TRUE
           ELSE LET parent_wheelchair_boarding ==
                        IF IsSome(stop.parent_station)
                           /\ Unwrap(stop.parent_station) \in DOMAIN g.stops
                        THEN Some(g.stops[Unwrap(stop.parent_station)].wheelchair_boarding)
                        ELSE None
                IN \/ parent_wheelchair_boarding = Some("Available")
                   \/ parent_wheelchair_boarding = Some("NotAvailable") })

Interval(start_date, end_date) == [start_date |-> start_date, end_date |-> end_date]

update_bounds_with_date(i, d) == Interval(Min(i.start_date, d), Max(i.end_date, d))
update_bounds(i, other) ==
    update_bounds_with_date(update_bounds_with_date(i, other.start_date), other.end_date)

\* HashMap::insert / entry().or_insert on a map modelled as a function
Insert(map, k, v) == [x \in DOMAIN map \cup {k} |-> IF x = k THEN v ELSE map[x]]

\* the sequences that enumerate the set S once each: the orders a hash map can iterate in
Orders(S) == {o \in [1..Cardinality(S) -> S] : Range(o) = S}

compute_services_start_end_dates(g) ==
    LET res == [id \in DOMAIN g.calendar |->
                    Interval(g.calendar[id].start_date, g.calendar[id].end_date)]
        added(sid) == SelectSeq(g.calendar_dates[sid], LAMBDA cd : cd.exception_type = "Added")
        one(sid) ==
            LET ds == added(sid)
                f[i \in 0..Len(ds)] ==
                    IF i = 0 THEN IF sid \in DOMAIN res THEN Some(res[sid]) ELSE None
                    ELSE IF IsSome(f[i - 1])
                         THEN Some(update_bounds_with_date(Unwrap(f[i - 1]), ds[i].date))
                         ELSE Some(Interval(ds[i].date, ds[i].date))
            IN f[Len(ds)]
        keys == {sid \in DOMAIN g.calendar \cup DOMAIN g.calendar_dates :
                    sid \in DOMAIN g.calendar \/ added(sid) # <<>>}
    IN [sid \in keys |-> IF sid \in DOMAIN g.calendar_dates THEN Unwrap(one(sid)) ELSE res[sid]]

(* trip_order and agency_order are the orders in which the hash maps       *)
(* gtfs.trips and agencies_start_end_dates happen to be iterated.          *)
networks_start_end_dates(md, g, trip_order, agency_order) ==
    IF Len(md.networks) = 1
    THEN LET start_end ==
                IF IsSome(md.start_date) /\ IsSome(md.end_date)
                THEN Some(Interval(ParseDate(Unwrap(md.start_date)),
                                   ParseDate(Unwrap(md.end_date))))
                ELSE None
         IN Insert(EmptyMap, md.networks[1], start_end)
    ELSE LET services_start_end_dates == compute_services_start_end_dates(g)
             pairs == FlatMap(trip_order, LAMBDA tid :
                        IF g.trips[tid].route_id \in DOMAIN g.routes
                        THEN <<<<g.routes[g.trips[tid].route_id].agency_id,
                                 g.trips[tid].service_id>>>>
                        ELSE <<>>)
             acc[i \in 0..Len(pairs)] ==
                IF i = 0 THEN EmptyMap
                ELSE LET agency_id == pairs[i][1]
                         service_id == pairs[i][2]
                     IN IF service_id \in DOMAIN services_start_end_dates
                        THEN LET service_bounds == services_start_end_dates[service_id]
                             IN IF agency_id \in DOMAIN acc[i - 1]
                                THEN Insert(acc[i - 1], agency_id,
                                            update_bounds(acc[i - 1][agency_id], service_bounds))
                                ELSE Insert(acc[i - 1], agency_id, service_bounds)
                        ELSE acc[i - 1]
             agencies_start_end_dates == acc[Len(pairs)]
             ids == SelectSeq(agency_order, LAMBDA id : id \in DOMAIN agencies_start_end_dates)
             name(id) ==
                LET found == SelectSeq(g.agencies, LAMBDA a : a.id = id)
                IN IF found # <<>> THEN found[1].name ELSE <<"name", "default_agency", 0>>
             out[i \in 0..Len(ids)] ==
                IF i = 0 THEN EmptyMap
                ELSE Insert(out[i - 1], name(ids[i]), Some(agencies_start_end_dates[ids[i]]))
         IN out[Len(ids)]

AgencyIds(g) ==
    {g.routes[g.trips[tid].route_id].agency_id :
        tid \in {x \in DOMAIN g.trips : g.trips[x].route_id \in DOMAIN g.routes}}

\* the variant that also overwrites the stop count with the count it computes
enrich_with_advanced_infos_recount(md, g, trip_order, agency_order) ==
    [md EXCEPT !.stats.stops_with_wheelchair_info_count =
                    Some(stops_with_wheelchair_info_count(g)),
               !.stops_count = stops_with_wheelchair_info_count(g),
               !.networks_start_end_dates =
                    Some(networks_start_end_dates(md, g, trip_order, agency_order))]

\* Metadata::enrich_with_advanced_infos
enrich_with_advanced_infos(md, g, trip_order, agency_order) ==
    LET counted == [md EXCEPT !.stats.stops_with_wheelchair_info_count =
                                    Some(stops_with_wheelchair_info_count(g))]
    IN [counted EXCEPT !.networks_start_end_dates =
                            Some(networks_start_end_dates(counted, g, trip_order, agency_order))]

---------------------------------------------------------------------------
(* visualization.rs *)

Feature(geometry, properties) == [geometry |-> geometry, properties |-> properties]

get_stop_geom(stop) ==
    IF IsSome(stop.longitude) /\ IsSome(stop.latitude)
    THEN Some([type |-> "Point", coordinates |-> <<Unwrap(stop.longitude), Unwrap(stop.latitude)>>])
    ELSE None

\* Option<Feature>
geojson_feature_point(stop_id, g) ==
    IF stop_id \in DOMAIN g.stops
    THEN LET stop == g.stops[stop_id]
         IN Some(Feature(get_stop_geom(stop), Some([id |-> stop.id, name |-> stop.name])))
    ELSE None

get_related_stop_ids(issue) ==
    MapSeq(SelectSeq(issue.related_objects, LAMBDA o : o.object_type = Some("Stop")),
           LAMBDA o : o.id)

Abs(x) == IF x < 0 THEN -x ELSE x

\* coordinates are integers, so being within the error margin is being equal
line_geometry_between_stops(stop1, stop2) ==
    IF /\ IsSome(stop1.longitude) /\ IsSome(stop1.latitude)
       /\ IsSome(stop2.longitude) /\ IsSome(stop2.latitude)
    THEN LET lon1 == Unwrap(stop1.longitude)
             lat1 == Unwrap(stop1.latitude)
             lon2 == Unwrap(stop2.longitude)
             lat2 == Unwrap(stop2.latitude)
         IN IF Abs(lon1 - lon2) < 1 /\ Abs(lon1 - lon2) < 1
            THEN None
            ELSE Some([type |-> "LineString",
                       coordinates |-> <<<<lon1, lat1>>, <<lon2, lat2>>>>])
    ELSE None

\* Option<Feature>
geojson_feature_line_string(stop1_id, stop2_id, g, issue) ==
    IF stop1_id \in DOMAIN g.stops /\ stop2_id \in DOMAIN g.stops
    THEN Some(Feature(line_geometry_between_stops(g.stops[stop1_id], g.stops[stop2_id]),
                      IF IsSome(issue.details)
                      THEN Some([details |-> Unwrap(issue.details)])
                      ELSE None))
    ELSE None

\* the variant that draws every issue, whatever the type of its subject
generate_issue_visualization_any(issue, g) ==
    Some([features |-> FlatMap(<<issue.object_id>>, LAMBDA id : geojson_feature_point(id, g))])

\* Option<FeatureCollection>
generate_issue_visualization(issue, g) ==
    IF issue.object_type = Some("Stop")
    THEN LET stop_id == issue.object_id
             related_stop_ids == get_related_stop_ids(issue)
             stop_features ==
                FlatMap(<<stop_id>> \o related_stop_ids,
                        LAMBDA id : geojson_feature_point(id, g))
             line_string_features ==
                FlatMap(related_stop_ids,
                        LAMBDA related_stop :
                            geojson_feature_line_string(stop_id, related_stop, g, issue))
         IN Some([features |-> stop_features \o line_string_features])
    ELSE None

\* Issue::push_related_geojson
push_related_geojson(issue, g) ==
    [issue EXCEPT !.geojson = generate_issue_visualization(issue, g)]

---------------------------------------------------------------------------
(* validate.rs *)

\* format!("{}: {}", error, inner) and format!("{}", error)
ErrorMessage(error) ==
    IF IsSome(error.inner) THEN error.text \o ": " \o Unwrap(error.inner) ELSE error.text

UnloadableModelId ==
    <<"A fatal error has occured while loading the model, many rules have not been checked", 0>>

\* the variant that does not record the error message
create_unloadable_model_error_bare(error) ==
    EmittedBy("validate", IssueNew(Fatal, "UnloadableModel", UnloadableModelId))

create_unloadable_model_error(error) ==
    LET msg == ErrorMessage(error)
        issue == WithDetails(IssueNew(Fatal, "UnloadableModel", UnloadableModelId), msg)
    IN EmittedBy("validate",
        IF error.kind = "CSVError"
        THEN [issue EXCEPT !.related_file =
                Some([file_name |-> error.file_name,
                      line |-> IF IsSome(error.position) /\ IsSome(error.line_in_error)
                               THEN Some([line_number |-> Unwrap(error.position),
                                          headers |-> Unwrap(error.line_in_error).headers,
                                          values |-> Unwrap(error.line_in_error).values])
                               ELSE None])]
        ELSE issue)

\* the variant that files every issue at the front of its bucket
FoldIssuesFront(iss) ==
    LET f[i \in 0..Len(iss)] ==
            IF i = 0 THEN EmptyMap
            ELSE LET t == iss[i].issue_type
                 IN Insert(f[i - 1], t,
                           IF t \in DOMAIN f[i - 1] THEN <<iss[i]>> \o f[i - 1][t] ELSE <<iss[i]>>)
    IN f[Len(iss)]

\* lines 95-100: validations.entry(issue.issue_type).or_insert_with(Vec::new).push(issue)
FoldIssues(iss) ==
    LET f[i \in 0..Len(iss)] ==
            IF i = 0 THEN EmptyMap
            ELSE LET t == iss[i].issue_type
                 IN Insert(f[i - 1], t,
                           IF t \in DOMAIN f[i - 1] THEN Append(f[i - 1][t], iss[i]) ELSE <<iss[i]>>)
    IN f[Len(iss)]

\* the variant that truncates a bucket before it records its length
TruncateThenCount(validations, max) ==
    LET truncated == [t \in DOMAIN validations |-> Truncate(validations[t], max)]
    IN [issues_count |-> [t \in DOMAIN validations |-> Len(truncated[t])],
        validations |-> truncated]

\* lines 102-105: the length of each bucket is recorded, then the bucket is truncated
CountThenTruncate(validations, max) ==
    [issues_count |-> [t \in DOMAIN validations |-> Len(validations[t])],
     validations |-> [t \in DOMAIN validations |-> Truncate(validations[t], max)]]

Response(md, validations) == [metadata |-> md, validations |-> validations]

\* the variant of the error arm that drops the error text
ProcessErrBare(e) ==
    Response(None, Insert(EmptyMap, "InvalidArchive",
        <<EmittedBy("process", IssueNew(Fatal, "InvalidArchive", EmptyId))>>))

\* process, lines 133-148: the parser failed
ProcessErrResponse(e) ==
    Response(None, Insert(EmptyMap, "InvalidArchive",
        <<EmittedBy("process", WithDetails(IssueNew(Fatal, "InvalidArchive", EmptyId), e))>>))

---------------------------------------------------------------------------
(* The orchestrator as a state machine: process, then the statements of    *)
(* validate_and_metadata in order.                                         *)

\* what the two chains can return within the bound on the number of issues
RawOutputs == ChainOutputs(RawChain, MaxIssuesTotal)
LinkedOutputs == ChainOutputs(LinkedChain, MaxIssuesTotal)

OrchInit ==
    /\ pc = "process"
    /\ raw_gtfs \in {Err(e) : e \in ParserErrors} \cup {Ok(f) : f \in RawFeeds}
    /\ max_issues \in 0..MaxMaxIssues
    /\ issues = <<>>
    /\ raw_out = <<>>
    /\ metadata = None
    /\ gtfs = None
    /\ response = None

\* process, Err arm (lines 133-148)
ProcessErr ==
    /\ pc = "process"
    /\ ~IsOk(raw_gtfs)
    /\ response' = Some(ProcessErrResponse(Val(raw_gtfs)))
    /\ pc' = "done"
    /\ UNCHANGED <<raw_gtfs, max_issues, issues, raw_out, metadata, gtfs>>
    /\ UNCHANGED <<speedVars, kindVars, ruleVars>>

\* process, Ok arm (line 132), and the raw-level chain (lines 55-60)
RawLevel ==
    /\ pc = "process"
    /\ IsOk(raw_gtfs)
    /\ \E out \in RawOutputs :
        /\ issues' = out
        /\ raw_out' = out
    /\ pc' = "extract"
    /\ UNCHANGED <<raw_gtfs, max_issues, metadata, gtfs, response>>
    /\ UNCHANGED <<speedVars, kindVars, ruleVars>>

\* line 61
ExtractMetadata ==
    /\ pc = "extract"
    /\ metadata' = Some(extract_metadata(Val(raw_gtfs)))
    /\ pc' = "try_from"
    /\ UNCHANGED <<raw_gtfs, max_issues, issues, raw_out, gtfs, response>>
    /\ UNCHANGED <<speedVars, kindVars, ruleVars>>

\* lines 63-89: the linked model was built
ModelOk ==
    /\ pc = "try_from"
    /\ Readable(Val(raw_gtfs))
    /\ LET g == GtfsOf(Val(raw_gtfs))
       IN /\ gtfs' = Some(Ok(g))
          /\ metadata' \in
                { Some(enrich_with_advanced_infos(Unwrap(metadata), g, trip_order, agency_order)) :
                    trip_order \in Orders(DOMAIN g.trips),
                    agency_order \in Orders(AgencyIds(g)) }
          /\ \E out \in {o \in LinkedOutputs : Len(issues) + Len(o) <= MaxIssuesTotal} :
                issues' = MapSeq(issues \o out, LAMBDA issue : push_related_geojson(issue, g))
    /\ pc' = "aggregate"
    /\ UNCHANGED <<raw_gtfs, max_issues, raw_out, response>>
    /\ UNCHANGED <<speedVars, kindVars, ruleVars>>

\* lines 63, 90-92: the linked model could not be built
ModelErr ==
    /\ pc = "try_from"
    /\ \E e \in ModelErrors :
        /\ gtfs' = Some(Err(e))
        /\ issues' = Append(issues, create_unloadable_model_error(e))
    /\ pc' = "aggregate"
    /\ UNCHANGED <<raw_gtfs, max_issues, raw_out, metadata, response>>
    /\ UNCHANGED <<speedVars, kindVars, ruleVars>>

\* lines 95-110; `issues` is kept as the record of what was emitted
Aggregate ==
    /\ pc = "aggregate"
    /\ LET counted == CountThenTruncate(FoldIssues(issues), max_issues)
           md == [Unwrap(metadata) EXCEPT !.issues_count = counted.issues_count]
       IN /\ metadata' = Some(md)
          /\ response' = Some(Response(Some(md), counted.validations))
    /\ pc' = "done"
    /\ UNCHANGED <<raw_gtfs, max_issues, issues, raw_out, gtfs>>
    /\ UNCHANGED <<speedVars, kindVars, ruleVars>>

OrchNext == ProcessErr \/ RawLevel \/ ExtractMetadata \/ ModelOk \/ ModelErr \/ Aggregate

\* the orchestrator at rest, while another part of the program is examined
OrchIdle ==
    /\ pc = "idle" /\ raw_gtfs = <<>> /\ max_issues = 0 /\ issues = <<>> /\ raw_out = <<>>
    /\ metadata = None /\ gtfs = None /\ response = None

---------------------------------------------------------------------------
(* Properties of the orchestrator *)

\* C1: for max_issues >= 1, issues_count[t] is the number of issues of type t
\* emitted before truncation, the bucket of t holds min(issues_count[t],
\* max_issues) issues, and with max_issues = 1 every bucket holds exactly one.
C1_CountBeforeTruncation ==
    (pc = "done" /\ IsOk(raw_gtfs) /\ max_issues >= 1) =>
        LET resp == Unwrap(response)
            md == Unwrap(resp.metadata)
            emitted(t) == SelectSeq(issues, LAMBDA i : i.issue_type = t)
        IN /\ DOMAIN md.issues_count = {issues[i].issue_type : i \in DOMAIN issues}
           /\ DOMAIN resp.validations = DOMAIN md.issues_count
           /\ \A t \in DOMAIN resp.validations :
                /\ md.issues_count[t] = Len(emitted(t))
                /\ Len(resp.validations[t]) = Min(md.issues_count[t], max_issues)
                /\ max_issues = 1 => Len(resp.validations[t]) = 1

\* a validation with max_issues = 1 in which two issues of one type were emitted
C1_Witness ==
    /\ pc = "done" /\ IsOk(raw_gtfs) /\ max_issues = 1
    /\ \E t \in DOMAIN Unwrap(response).validations :
        /\ Unwrap(Unwrap(response).metadata).issues_count[t] = 2
        /\ Len(Unwrap(response).validations[t]) = 1

\* C2: process always returns a Response; when the parser failed the metadata
\* is absent and validations has the single key InvalidArchive holding one
\* Fatal issue with an empty object_id and the error string as details, no
\* rule having run; when the parser succeeded the metadata is present.
C2_ProcessResponse ==
    /\ (pc = "done") <=> IsSome(response)
    /\ pc = "done" =>
        LET resp == Unwrap(response)
        IN IF IsOk(raw_gtfs)
           THEN IsSome(resp.metadata)
           ELSE /\ resp.metadata = None
                /\ DOMAIN resp.validations = {"InvalidArchive"}
                /\ Len(resp.validations["InvalidArchive"]) = 1
                /\ LET i == resp.validations["InvalidArchive"][1]
                   IN /\ i.severity = Fatal
                      /\ i.issue_type = "InvalidArchive"
                      /\ i.object_id = EmptyId
                      /\ i.details = Some(Val(raw_gtfs))
                      /\ i.rule = "process"
                /\ issues = <<>> /\ raw_out = <<>> /\ metadata = None /\ gtfs = None

\* process has returned on a parser error
C2_Witness ==
    /\ pc = "done" /\ ~IsOk(raw_gtfs) /\ IsSome(response)
    /\ "InvalidArchive" \in DOMAIN Unwrap(response).validations

\* C3: when the RawFeed was parsed but the linked model could not be built,
\* the issue list is the issues of the raw-level rules followed by exactly
\* one Fatal UnloadableModel issue with details; no linked-level issue.
C3_UnloadableModel ==
    (pc \in {"aggregate", "done"} /\ IsSome(gtfs) /\ ~IsOk(Unwrap(gtfs))) =>
        /\ Len(issues) = Len(raw_out) + 1
        /\ SubSeq(issues, 1, Len(raw_out)) = raw_out
        /\ \A i \in 1..Len(raw_out) : issues[i].rule \in Range(RawRules)
        /\ \A i \in DOMAIN issues : issues[i].rule \notin Range(LinkedRules)
        /\ LET last == issues[Len(issues)]
           IN /\ last.issue_type = "UnloadableModel"
              /\ last.severity = Fatal
              /\ IsSome(last.details)
        /\ Cardinality({i \in DOMAIN issues : issues[i].issue_type = "UnloadableModel"}) = 1

\* a feed with raw-level issues whose linked model could not be built
C3_Witness ==
    /\ pc = "done" /\ IsSome(gtfs) /\ ~IsOk(Unwrap(gtfs))
    /\ Len(raw_out) >= 2
    /\ IsSome(issues[Len(issues)].related_file)

\* C5: an issue of severity Fatal has one of the issue types InvalidArchive,
\* UnloadableModel, MissingMandatoryFile, InvalidReference.
C5_FatalTypes ==
    LET fatal_types == {"InvalidArchive", "UnloadableModel", "MissingMandatoryFile",
                        "InvalidReference"}
    IN /\ \A i \in DOMAIN issues :
            issues[i].severity = Fatal => issues[i].issue_type \in fatal_types
       /\ IsSome(response) =>
            \A t \in DOMAIN Unwrap(response).validations :
                \A k \in DOMAIN Unwrap(response).validations[t] :
                    Unwrap(response).validations[t][k].severity = Fatal => t \in fatal_types

\* a response holding a Fatal issue of a linked-level rule and an issue that is not Fatal
C5_Witness ==
    /\ pc = "done" /\ IsOk(raw_gtfs)
    /\ \E i, j \in DOMAIN issues :
        /\ issues[i].severity = Fatal /\ issues[i].rule = "duration_distance"
        /\ issues[j].severity # Fatal
    /\ "InvalidReference" \in DOMAIN Unwrap(response).validations

\* C6: a bucket lists its issues in emission order, the raw-level rules in
\* their order before the linked-level rules in chain order, and truncation
\* keeps the first max_issues issues of the bucket.
C6_EmissionOrder ==
    (pc = "done" /\ IsOk(raw_gtfs)) =>
        LET resp == Unwrap(response)
            order == RawRules \o LinkedRules \o <<"validate">>
            position(r) == CHOOSE k \in DOMAIN order : order[k] = r
        IN /\ \A t \in DOMAIN resp.validations :
                resp.validations[t] =
                    Truncate(SelectSeq(issues, LAMBDA i : i.issue_type = t), max_issues)
           /\ \A i, j \in DOMAIN issues :
                i < j => position(issues[i].rule) <= position(issues[j].rule)

\* a raw-level and a linked-level issue of one type, of which truncation keeps the first
C6_Witness ==
    /\ pc = "done" /\ IsOk(raw_gtfs) /\ max_issues = 1
    /\ Len(issues) = 2
    /\ issues[1].issue_type = issues[2].issue_type
    /\ issues[1].rule \in Range(RawRules)
    /\ issues[2].rule \in Range(LinkedRules)
    /\ Unwrap(response).validations[issues[1].issue_type] = <<issues[1]>>

\* C7 as stated: in every Response of a parsed RawFeed, every issue whose
\* object_type is Stop has a geojson and every other issue has none.
C7_StopIssuesAlwaysDrawn ==
    (pc = "done" /\ IsOk(raw_gtfs)) =>
        \A t \in DOMAIN Unwrap(response).validations :
            \A k \in DOMAIN Unwrap(response).validations[t] :
                LET i == Unwrap(response).validations[t][k]
                IN IsSome(i.geojson) <=> (i.object_type = Some("Stop"))

\* C7, amended: when the linked model was built, every issue whose object_type
\* is Stop has a geojson, raw-level issues included, and every other issue
\* has none; when the linked model could not be built no issue has a geojson.
C7_StopIssuesDrawnWhenModelBuilt ==
    (pc = "done" /\ IsOk(raw_gtfs)) =>
        \A t \in DOMAIN Unwrap(response).validations :
            \A k \in DOMAIN Unwrap(response).validations[t] :
                LET i == Unwrap(response).validations[t][k]
                IN IsSome(i.geojson) <=> (IsOk(Unwrap(gtfs)) /\ i.object_type = Some("Stop"))

\* a response of a built model holding a drawn raw-level issue on a stop
C7_Witness ==
    /\ pc = "done" /\ IsOk(raw_gtfs) /\ IsOk(Unwrap(gtfs))
    /\ \E t \in DOMAIN Unwrap(response).validations :
        \E k \in DOMAIN Unwrap(response).validations[t] :
            LET i == Unwrap(response).validations[t][k]
            IN /\ i.rule \in Range(RawRules)
               /\ i.object_type = Some("Stop")
               /\ IsSome(i.geojson)
               /\ Unwrap(i.geojson).features # <<>>

\* C8: stops_with_wheelchair_info_count and networks_start_end_dates are set
\* exactly when the linked model was built: extract_metadata leaves both
\* unset, enrich_with_advanced_infos sets both and changes no other field.
C8_AdvancedInfos ==
    /\ pc = "try_from" =>
        /\ Unwrap(metadata).stats.stops_with_wheelchair_info_count = None
        /\ Unwrap(metadata).networks_start_end_dates = None
    /\ (pc \in {"aggregate", "done"} /\ IsOk(raw_gtfs)) =>
        LET md == Unwrap(metadata)
            built == IsOk(Unwrap(gtfs))
        IN /\ IsSome(md.stats.stops_with_wheelchair_info_count) <=> built
           /\ IsSome(md.networks_start_end_dates) <=> built
           /\ [md EXCEPT !.stats.stops_with_wheelchair_info_count = None,
                         !.networks_start_end_dates = None,
                         !.issues_count = EmptyMap]
                = extract_metadata(Val(raw_gtfs))
    /\ (pc = "done" /\ IsOk(raw_gtfs)) => Unwrap(response).metadata = metadata

\* a response of a built model of two networks, each with its interval
C8_Witness ==
    /\ pc = "done" /\ IsOk(raw_gtfs) /\ IsOk(Unwrap(gtfs))
    /\ Unwrap(metadata).stats.stops_with_wheelchair_info_count = Some(1)
    /\ Cardinality(DOMAIN Unwrap(Unwrap(metadata).networks_start_end_dates)) = 2

---------------------------------------------------------------------------
(* validators/duration_distance.rs                                         *)
(*                                                                         *)
(* Distances and durations are f64 in the program.  The model keeps them   *)
(* as integers (metres, seconds) and a speed as a fraction <<num, den>>,   *)
(* and compares quotients by cross-multiplication; the inputs stay away    *)
(* from the quotients that differ from a threshold by a rounding error.    *)

DefaultRules ==
    [max_tramway_speed |-> None, max_subway_speed |-> None, max_rail_speed |-> None,
     max_bus_speed |-> None, max_ferry_speed |-> None, max_cable_car_speed |-> None,
     max_gondola_speed |-> None, max_funicular_speed |-> None, max_coach_speed |-> None,
     max_air_speed |-> None, max_taxi_speed |-> None, max_other_speed |-> None]

RouteTypes == {"Tramway", "Subway", "Rail", "Bus", "Ferry", "CableCar", "Gondola",
               "Funicular", "Coach", "Air", "Taxi", "Other"}

\* Option::unwrap_or
UnwrapOr(o, default) == IF IsSome(o) THEN Unwrap(o) ELSE default

\* geo's haversine distance in metres, for two points of one meridian: the
\* latitudes are counted in arcs of one metre
haversine_distance(lon1, lat1, lon2, lat2) == Abs(lat1 - lat2)

\* Option<(distance, duration)>
distance_and_duration(departure, arrival) ==
    IF /\ IsSome(arrival.arrival_time) /\ IsSome(departure.departure_time)
       /\ IsSome(departure.stop.longitude) /\ IsSome(departure.stop.latitude)
       /\ IsSome(arrival.stop.longitude) /\ IsSome(arrival.stop.latitude)
    THEN LET duration == Unwrap(arrival.arrival_time) - Unwrap(departure.departure_time)
             distance == haversine_distance(
                            Unwrap(departure.stop.longitude), Unwrap(departure.stop.latitude),
                            Unwrap(arrival.stop.longitude), Unwrap(arrival.stop.latitude))
         IN Some(<<distance, duration>>)
    ELSE None

\* the variant in which the tramways follow the limit set for the buses
max_speed_tramway_as_bus(route_type, custom_rules) ==
    LET kmh == CASE route_type = "Tramway" -> UnwrapOr(custom_rules.max_bus_speed, 100)
                 [] route_type = "Subway" -> UnwrapOr(custom_rules.max_subway_speed, 140)
                 [] route_type = "Rail" -> UnwrapOr(custom_rules.max_rail_speed, 320)
                 [] route_type = "Bus" -> UnwrapOr(custom_rules.max_bus_speed, 120)
                 [] route_type = "Ferry" -> UnwrapOr(custom_rules.max_ferry_speed, 90)
                 [] route_type = "CableCar" -> UnwrapOr(custom_rules.max_cable_car_speed, 30)
                 [] route_type = "Gondola" -> UnwrapOr(custom_rules.max_gondola_speed, 45)
                 [] route_type = "Funicular" -> UnwrapOr(custom_rules.max_funicular_speed, 40)
                 [] route_type = "Coach" -> UnwrapOr(custom_rules.max_coach_speed, 120)
                 [] route_type = "Air" -> UnwrapOr(custom_rules.max_air_speed, 1000)
                 [] route_type = "Taxi" -> UnwrapOr(custom_rules.max_taxi_speed, 50)
                 [] OTHER -> UnwrapOr(custom_rules.max_other_speed, 120)
    IN <<kmh * 10, 36>>

\* the speed in m/s as a fraction: the km/h figure divided by 3.6
max_speed(route_type, custom_rules) ==
    LET kmh == CASE route_type = "Tramway" -> UnwrapOr(custom_rules.max_tramway_speed, 100)
                 [] route_type = "Subway" -> UnwrapOr(custom_rules.max_subway_speed, 140)
                 [] route_type = "Rail" -> UnwrapOr(custom_rules.max_rail_speed, 320)
                 [] route_type = "Bus" -> UnwrapOr(custom_rules.max_bus_speed, 120)
                 [] route_type = "Ferry" -> UnwrapOr(custom_rules.max_ferry_speed, 90)
                 [] route_type = "CableCar" -> UnwrapOr(custom_rules.max_cable_car_speed, 30)
                 [] route_type = "Gondola" -> UnwrapOr(custom_rules.max_gondola_speed, 45)
                 [] route_type = "Funicular" -> UnwrapOr(custom_rules.max_funicular_speed, 40)
                 [] route_type = "Coach" -> UnwrapOr(custom_rules.max_coach_speed, 120)
                 [] route_type = "Air" -> UnwrapOr(custom_rules.max_air_speed, 1000)
                 [] route_type = "Taxi" -> UnwrapOr(custom_rules.max_taxi_speed, 50)
                 [] OTHER -> UnwrapOr(custom_rules.max_other_speed, 120)
    IN <<kmh * 10, 36>>

\* distance / duration > q and distance / duration < q in f64, for distance >= 0:
\* a division by zero gives +inf, or NaN when the distance is zero as well
QuotientGreater(distance, duration, q) ==
    IF duration = 0 THEN distance > 0
    ELSE IF duration > 0 THEN distance * q[2] > q[1] * duration
    ELSE distance * q[2] < q[1] * duration

QuotientLess(distance, duration, q) ==
    IF duration = 0 THEN FALSE
    ELSE IF duration > 0 THEN distance * q[2] < q[1] * duration
    ELSE distance * q[2] > q[1] * duration

\* format!("... {:.2} km/h ({:.0} m travelled in {:.0} seconds)", distance / duration * 3.6, ..)
SpeedDetails(distance, duration) ==
    <<"computed speed between the stops is {:.2} km/h ({:.0} m travelled in {:.0} seconds)",
      <<distance * 36, duration * 10>>, distance, duration>>

\* the variant that looks at the sign of the duration before the distance
issue_kind_sign_first(distance, duration, route_type, custom_rules) ==
    IF duration < 0
    THEN Some(<<Warning, "NegativeTravelTime", <<"duration is {} seconds", duration>>>>)
    ELSE IF distance < 10
    THEN Some(<<Information, "CloseStops",
                <<"distance between the stops is {:.0} meter(s)", distance>>>>)
    ELSE IF duration = 0 /\ distance > 500
    THEN Some(<<Warning, "NullDuration",
                <<"travel duration is null, but there are {:.0} meters between the stops",
                  distance>>>>)
    ELSE IF duration > 0
            /\ QuotientGreater(distance, duration, max_speed(route_type, custom_rules))
    THEN Some(<<Information, "ExcessiveSpeed", SpeedDetails(distance, duration)>>)
    ELSE IF QuotientLess(distance, duration, <<1, 10>>)
    THEN Some(<<Information, "Slow", SpeedDetails(distance, duration)>>)
    ELSE None

\* lines 62-111: Option<(severity, issue_type, details)>
issue_kind(distance, duration, route_type, custom_rules) ==
    IF distance < 10
    THEN Some(<<Information, "CloseStops",
                <<"distance between the stops is {:.0} meter(s)", distance>>>>)
    ELSE IF duration = 0 /\ distance > 500
    THEN Some(<<Warning, "NullDuration",
                <<"travel duration is null, but there are {:.0} meters between the stops",
                  distance>>>>)
    ELSE IF duration > 0
            /\ QuotientGreater(distance, duration, max_speed(route_type, custom_rules))
    THEN Some(<<Information, "ExcessiveSpeed", SpeedDetails(distance, duration)>>)
    ELSE IF duration < 0
    THEN Some(<<Warning, "NegativeTravelTime", <<"duration is {} seconds", duration>>>>)
    ELSE IF QuotientLess(distance, duration, <<1, 10>>)
    THEN Some(<<Information, "Slow", SpeedDetails(distance, duration)>>)
    ELSE None

\* String comparison of two stop ids: the ids of the model are ordered as their ordinals
IdLess(a, b) == a[2] < b[2]

\* the variant that keys an issue by the directed pair of stops
speed_key_directed(departure, arrival, issue_type, severity) ==
    <<departure.stop.id, arrival.stop.id, issue_type, severity>>

\* lines 117-131
speed_key(departure, arrival, issue_type, severity) ==
    IF IdLess(departure.stop.id, arrival.stop.id)
    THEN <<departure.stop.id, arrival.stop.id, issue_type, severity>>
    ELSE <<arrival.stop.id, departure.stop.id, issue_type, severity>>

\* the variant that lists the route of every pair of stop times, listed already or not
speed_window_every_route(map, route, departure, arrival, custom_rules) ==
    LET dd == distance_and_duration(departure, arrival)
        kind == IF IsSome(dd)
                THEN issue_kind(Unwrap(dd)[1], Unwrap(dd)[2], route.route_type, custom_rules)
                ELSE None
    IN IF IsSome(kind)
       THEN LET key == speed_key(departure, arrival, Unwrap(kind)[2], Unwrap(kind)[1])
                issue ==
                    IF key \in DOMAIN map THEN map[key]
                    ELSE WithDetails(
                            AddRelatedObject(
                                IssueNewWithObj(Unwrap(kind)[1], Unwrap(kind)[2], departure.stop),
                                arrival.stop),
                            Unwrap(kind)[3])
            IN Insert(map, key, PushRelatedObject(issue, route))
       ELSE map

\* lines 61-152: the body of the inner loop for one pair of consecutive stop times
speed_window(map, route, departure, arrival, custom_rules) ==
    LET dd == distance_and_duration(departure, arrival)
    IN IF IsSome(dd)
       THEN LET kind == issue_kind(Unwrap(dd)[1], Unwrap(dd)[2], route.route_type, custom_rules)
            IN IF IsSome(kind)
               THEN LET severity == Unwrap(kind)[1]
                        issue_type == Unwrap(kind)[2]
                        details == Unwrap(kind)[3]
                        key == speed_key(departure, arrival, issue_type, severity)
                        issue ==
                            IF key \in DOMAIN map THEN map[key]
                            ELSE WithDetails(
                                    AddRelatedObject(
                                        IssueNewWithObj(severity, issue_type, departure.stop),
                                        arrival.stop),
                                    details)
                        any_related ==
                            \E k \in DOMAIN issue.related_objects :
                                /\ issue.related_objects[k].id = route.id
                                /\ issue.related_objects[k].object_type = Some("Route")
                    IN Insert(map, key,
                              IF ~any_related THEN PushRelatedObject(issue, route) ELSE issue)
               ELSE map
       ELSE map

\* lines 60-154: trip.stop_times.iter().tuple_windows(), each pair in turn
speed_trip(map, route, stop_times, custom_rules) ==
    LET f[i \in 0..Max(Len(stop_times) - 1, 0)] ==
            IF i = 0 THEN map
            ELSE speed_window(f[i - 1], route, stop_times[i], stop_times[i + 1], custom_rules)
    IN f[Max(Len(stop_times) - 1, 0)]


\* the error of Gtfs::get_route for an unknown id, and its Display
ReferenceError(id) == [kind |-> "ReferenceError", id |-> id]
FormatError(e) == <<"The id is not known", e.id[2]>>

\* Result<&Route, Error>
get_route(g, id) == IF id \in DOMAIN g.routes THEN Ok(g.routes[id]) ELSE Err(ReferenceError(id))

\* the variant that falls back to no issue when validate_speeds fails
validate_unwrap_or_default(result) ==
    IF IsOk(result) THEN Val(result) ELSE <<>>

\* validate, lines 167-173: validate_speeds(..).unwrap_or_else(..)
validate_unwrap(result) ==
    IF IsOk(result) THEN Val(result)
    ELSE <<IssueNew(Fatal, "InvalidReference", FormatError(Val(result)))>>

---------------------------------------------------------------------------
(* The feeds given to the speed rule: three stops of one meridian, 5 m and *)
(* 3000 m from the first; two trips, each a walk over the stops whose      *)
(* times advance, stand still or go back by StepSeconds at each stop.      *)

SpeedStops ==
    << Stop(1, "StopPoint", Some(0), Some(0), None, "InformationNotAvailable"),
       Stop(2, "StopPoint", Some(0), Some(5), None, "InformationNotAvailable"),
       Stop(3, "StopPoint", Some(0), Some(3000), None, "InformationNotAvailable") >>

StopTime(stop, time) == [stop |-> stop, arrival_time |-> time, departure_time |-> time]

SpeedPaths ==
    UNION { { [i \in 1..len |->
                StopTime(SpeedStops[walk[i]],
                         Some(IF step >= 0 THEN (i - 1) * step ELSE (len - i) * (-step)))] :
              walk \in [1..len -> DOMAIN SpeedStops],
              step \in {-StepSeconds, 0, StepSeconds} } :
            len \in 2..MaxStopTimes }

SpeedTrip(n, route_n, stop_times) ==
    [id |-> <<"Trip", n>>, route_id |-> <<"Route", route_n>>, stop_times |-> stop_times]

\* the first trip has two stop times; the second trip may run on the first one's
\* bus route, on a tramway route or on a missing one
SpeedFeeds ==
    { [trips |-> MapById(<<SpeedTrip(1, 1, p1), SpeedTrip(2, r2, p2)>>),
       routes |-> MapById(<<Route(1, None, "Bus"), Route(2, None, "Tramway")>>)] :
        p1 \in {p \in SpeedPaths : Len(p) = 2}, p2 \in SpeedPaths, r2 \in {1, 2, 9} }

SpeedRules ==
    {DefaultRules,
     [DefaultRules EXCEPT !.max_bus_speed = Some(200)],
     [DefaultRules EXCEPT !.max_tramway_speed = Some(200)]}

\* the speed rule at rest, while another part of the program is examined
SpeedIdle ==
    /\ sp_pc = "idle" /\ sp_gtfs = <<>> /\ sp_rules = <<>> /\ sp_todo = {} /\ sp_map = <<>>
    /\ sp_result = None /\ sp_issues = None /\ sp_run = 0 /\ sp_first = None

SpeedInit ==
    /\ sp_pc = "trips"
    /\ sp_gtfs \in SpeedFeeds
    /\ sp_rules \in SpeedRules
    \* a custom speed is tried on the feeds whose second trip runs on a route of its mode
    /\ IsSome(sp_rules.max_bus_speed) => sp_gtfs.trips[<<"Trip", 2>>].route_id = <<"Route", 1>>
    /\ IsSome(sp_rules.max_tramway_speed) =>
            sp_gtfs.trips[<<"Trip", 2>>].route_id = <<"Route", 2>>
    /\ sp_todo = DOMAIN sp_gtfs.trips
    /\ sp_map = EmptyMap
    /\ sp_result = None
    /\ sp_issues = None
    /\ sp_run = 1
    /\ sp_first = None

\* lines 58-155: one iteration of the loop over gtfs.trips.values(), the route being known
SpeedsTrip ==
    /\ sp_pc = "trips"
    /\ \E tid \in sp_todo :
        LET trip == sp_gtfs.trips[tid]
            route == get_route(sp_gtfs, trip.route_id)
        IN /\ IsOk(route)
           /\ sp_map' = speed_trip(sp_map, Val(route), trip.stop_times, sp_rules)
           /\ sp_todo' = sp_todo \ {tid}
    /\ UNCHANGED <<sp_pc, sp_gtfs, sp_rules, sp_result, sp_issues, sp_run, sp_first>>
    /\ UNCHANGED <<orchVars, kindVars, ruleVars>>

\* line 59: the route of the trip is unknown and `?` returns the error
SpeedsRouteUnknown ==
    /\ sp_pc = "trips"
    /\ \E tid \in sp_todo :
        LET route == get_route(sp_gtfs, sp_gtfs.trips[tid].route_id)
        IN /\ ~IsOk(route)
           /\ sp_result' = Some(Err(Val(route)))
    /\ sp_pc' = "returned"
    /\ UNCHANGED <<sp_gtfs, sp_rules, sp_todo, sp_map, sp_issues, sp_run, sp_first>>
    /\ UNCHANGED <<orchVars, kindVars, ruleVars>>

\* lines 157-160: the map is drained into a vector, in the order the map iterates
SpeedsCollect ==
    /\ sp_pc = "trips"
    /\ sp_todo = {}
    /\ \E order \in Orders(DOMAIN sp_map) :
        sp_result' = Some(Ok([i \in DOMAIN order |-> sp_map[order[i]]]))
    /\ sp_pc' = "returned"
    /\ UNCHANGED <<sp_gtfs, sp_rules, sp_todo, sp_map, sp_issues, sp_run, sp_first>>
    /\ UNCHANGED <<orchVars, kindVars, ruleVars>>

\* validate, lines 163-174
SpeedsValidate ==
    /\ sp_pc = "returned"
    /\ sp_issues' = Some(validate_unwrap(Unwrap(sp_result)))
    /\ sp_pc' = "done"
    /\ UNCHANGED <<sp_gtfs, sp_rules, sp_todo, sp_map, sp_result, sp_run, sp_first>>
    /\ UNCHANGED <<orchVars, kindVars, ruleVars>>

\* the same feed is validated a second time, with the same rules
SpeedsAgain ==
    /\ sp_pc = "done"
    /\ sp_run = 1
    /\ sp_first' = sp_issues
    /\ sp_run' = 2
    /\ sp_pc' = "trips"
    /\ sp_todo' = DOMAIN sp_gtfs.trips
    /\ sp_map' = EmptyMap
    /\ sp_result' = None
    /\ sp_issues' = None
    /\ UNCHANGED <<sp_gtfs, sp_rules>>
    /\ UNCHANGED <<orchVars, kindVars, ruleVars>>

SpeedNext == SpeedsTrip \/ SpeedsRouteUnknown \/ SpeedsCollect \/ SpeedsValidate

---------------------------------------------------------------------------
(* The classification of one pair of consecutive stop times, on its own.   *)

KindStopTimes(lats, times) ==
    { StopTime(Stop(1, "StopPoint", Some(0), lat, None, "InformationNotAvailable"), time) :
        lat \in lats, time \in times }

KindInputs ==
    [departure : KindStopTimes({None, Some(0)}, {None, Some(100)}),
     arrival : KindStopTimes({None} \cup {Some(d) : d \in {0, 9, 10, 11, 500, 501, 3000}},
                             {None} \cup {Some(100 + t) : t \in {-60, 0, 1, 50, 6000}}),
     route_type : RouteTypes,
     custom_rules : SpeedRules]

KindIdle == kind_in = <<>> /\ kind_out = None

KindInit == kind_in \in KindInputs /\ kind_out = None

\* lines 61-111 for the pair: None when a time or a coordinate is missing
Classify ==
    /\ kind_out = None
    /\ kind_in \in KindInputs
    /\ LET dd == distance_and_duration(kind_in.departure, kind_in.arrival)
       IN kind_out' = Some(IF IsSome(dd)
                           THEN issue_kind(Unwrap(dd)[1], Unwrap(dd)[2],
                                           kind_in.route_type, kind_in.custom_rules)
                           ELSE None)
    /\ UNCHANGED kind_in
    /\ UNCHANGED <<orchVars, speedVars, ruleVars>>

---------------------------------------------------------------------------
(* The specifications *)

\* a validation by the orchestrator
Init == OrchInit /\ SpeedIdle /\ KindIdle /\ RuleIdle
Next == OrchNext
Spec == Init /\ [][Next]_vars

\* the speed rule run on a feed
InitSpeeds == SpeedInit /\ OrchIdle /\ KindIdle /\ RuleIdle
NextSpeeds == SpeedNext
SpecSpeeds == InitSpeeds /\ [][NextSpeeds]_vars

\* the speed rule run twice on a feed
InitTwice == SpeedInit /\ OrchIdle /\ KindIdle /\ RuleIdle
NextTwice == SpeedNext \/ SpeedsAgain
SpecTwice == InitTwice /\ [][NextTwice]_vars

\* the classification of a pair of stop times
InitKind == KindInit /\ OrchIdle /\ SpeedIdle /\ RuleIdle
NextKind == Classify
SpecKind == InitKind /\ [][NextKind]_vars

---------------------------------------------------------------------------
(* Properties of the speed rule *)

\* C4: validating the same feed twice with the same max_issues and custom
\* rules yields equal reports, each bucket compared as a multiset of issues,
\* whatever order the hash maps iterate in during each validation.
C4_SameReportTwice ==
    (sp_pc = "done" /\ sp_run = 2) =>
        \A m \in 1..MaxMaxIssues :
            LET first == CountThenTruncate(FoldIssues(Unwrap(sp_first)), m)
                second == CountThenTruncate(FoldIssues(Unwrap(sp_issues)), m)
                times(x, bucket) == Cardinality({i \in DOMAIN bucket : bucket[i] = x})
            IN /\ first.issues_count = second.issues_count
               /\ \A t \in DOMAIN first.validations :
                    \A x \in Range(first.validations[t]) \cup Range(second.validations[t]) :
                        times(x, first.validations[t]) = times(x, second.validations[t])

\* C9: a pair of consecutive stop times with both times and all four
\* coordinates, of distance d and duration t, gets at most one issue kind, the
\* first that matches of: d < 10 CloseStops (Information); t = 0 and d > 500
\* NullDuration (Warning); t > 0 and d/t > max_speed ExcessiveSpeed
\* (Information); t < 0 NegativeTravelTime (Warning); d/t < 0.1 Slow
\* (Information).  t = 0 and 10 <= d <= 500 gets none, and t < 0 never gets
\* ExcessiveSpeed or Slow.
C9_IssueKindOrder ==
    LET dep == kind_in.departure
        arr == kind_in.arrival
    IN (/\ IsSome(kind_out)
        /\ IsSome(arr.arrival_time) /\ IsSome(dep.departure_time)
        /\ IsSome(dep.stop.longitude) /\ IsSome(dep.stop.latitude)
        /\ IsSome(arr.stop.longitude) /\ IsSome(arr.stop.latitude)) =>
        LET d == Abs(Unwrap(dep.stop.latitude) - Unwrap(arr.stop.latitude))
            t == Unwrap(arr.arrival_time) - Unwrap(dep.departure_time)
            limit == max_speed(kind_in.route_type, kind_in.custom_rules)
            excessive == t > 0 /\ d * limit[2] > limit[1] * t
            slow == t > 0 /\ 10 * d < t
            kind == Unwrap(kind_out)
            is(severity, issue_type) ==
                IsSome(kind) /\ Unwrap(kind)[1] = severity /\ Unwrap(kind)[2] = issue_type
        IN /\ d < 10 => is(Information, "CloseStops")
           /\ (d >= 10 /\ t = 0 /\ d > 500) => is(Warning, "NullDuration")
           /\ (d >= 10 /\ excessive) => is(Information, "ExcessiveSpeed")
           /\ (d >= 10 /\ t < 0) => is(Warning, "NegativeTravelTime")
           /\ (d >= 10 /\ ~excessive /\ slow) => is(Information, "Slow")
           /\ (d >= 10 /\ t > 0 /\ ~excessive /\ ~slow) => kind = None
           /\ (t = 0 /\ d >= 10 /\ d <= 500) => kind = None
           /\ t < 0 => ~is(Information, "ExcessiveSpeed") /\ ~is(Information, "Slow")

\* two stops 9 m apart served in the wrong order of time: the distance decides
C9_Witness ==
    /\ IsSome(kind_out) /\ IsSome(Unwrap(kind_out))
    /\ Unwrap(Unwrap(kind_out))[2] = "CloseStops"
    /\ kind_in.arrival.stop.latitude = Some(9)
    /\ kind_in.arrival.arrival_time = Some(40)
    /\ kind_in.departure.departure_time = Some(100)
    /\ kind_in.departure.stop.latitude = Some(0)

\* C10: validate_speeds returns at most one issue per unordered pair of stops,
\* issue type and severity, in whatever order the trips are visited: the two
\* directions of a segment and all the trips using it give one issue, and the
\* number of issues is the number of distinct keys that occurred.
C10_OneIssuePerKey ==
    (sp_pc \in {"returned", "done"} /\ IsOk(Unwrap(sp_result))) =>
        LET out == Val(Unwrap(sp_result))
            windows == {<<tid, i>> \in (DOMAIN sp_gtfs.trips) \X (1..MaxStopTimes) :
                            i < Len(sp_gtfs.trips[tid].stop_times)}
            dep(w) == sp_gtfs.trips[w[1]].stop_times[w[2]]
            arr(w) == sp_gtfs.trips[w[1]].stop_times[w[2] + 1]
            kind(w) ==
                LET dd == distance_and_duration(dep(w), arr(w))
                IN IF IsSome(dd)
                   THEN issue_kind(Unwrap(dd)[1], Unwrap(dd)[2],
                                   sp_gtfs.routes[sp_gtfs.trips[w[1]].route_id].route_type,
                                   sp_rules)
                   ELSE None
            occurred == { <<{dep(w).stop.id, arr(w).stop.id}, Unwrap(kind(w))[2], Unwrap(kind(w))[1]>> :
                            w \in {x \in windows : IsSome(kind(x))} }
            key_of(issue) ==
                <<{issue.object_id, issue.related_objects[1].id}, issue.issue_type, issue.severity>>
        IN /\ Len(out) = Cardinality(occurred)
           /\ {key_of(out[i]) : i \in DOMAIN out} = occurred
           /\ \A i, j \in DOMAIN out : i # j => key_of(out[i]) # key_of(out[j])
           /\ sp_pc = "done" => sp_issues = Some(out)

\* a segment used in one direction by a trip and in the other by the other trip: one issue
C10_Witness ==
    /\ sp_pc = "done" /\ IsOk(Unwrap(sp_result))
    /\ Len(Val(Unwrap(sp_result))) = 1
    /\ LET t1 == sp_gtfs.trips[<<"Trip", 1>>].stop_times
           t2 == sp_gtfs.trips[<<"Trip", 2>>].stop_times
       IN /\ t1[1].stop.id = <<"Stop", 1>> /\ t1[2].stop.id = <<"Stop", 2>>
          /\ t2[1].stop.id = <<"Stop", 2>> /\ t2[2].stop.id = <<"Stop", 1>>
    /\ Len(Val(Unwrap(sp_result))[1].related_objects) = 3


\* C11: in every issue of validate_speeds the subject is the departure stop
\* and related_objects[0] the arrival stop of the first pair of stop times
\* processed for its key; the other related objects are exactly the routes
\* of the trips that produced the key, each once, and never a trip; so
\* related_objects has length 1 + the number of those routes.
C11_SubjectAndRoutes ==
    /\ [](sp_pc \in {"returned", "done"} /\ IsOk(Unwrap(sp_result)) =>
            \A n \in DOMAIN Val(Unwrap(sp_result)) :
                LET issue == Val(Unwrap(sp_result))[n]
                    related == issue.related_objects
                    produced(tid) ==
                        \E i \in 1..(Len(sp_gtfs.trips[tid].stop_times) - 1) :
                            LET dep == sp_gtfs.trips[tid].stop_times[i]
                                arr == sp_gtfs.trips[tid].stop_times[i + 1]
                                dd == distance_and_duration(dep, arr)
                                kind == issue_kind(Unwrap(dd)[1], Unwrap(dd)[2],
                                            sp_gtfs.routes[sp_gtfs.trips[tid].route_id].route_type,
                                            sp_rules)
                            IN /\ {dep.stop.id, arr.stop.id}
                                    = {issue.object_id, related[1].id}
                               /\ IsSome(dd) /\ IsSome(kind)
                               /\ Unwrap(kind)[2] = issue.issue_type
                               /\ Unwrap(kind)[1] = issue.severity
                    routes == {sp_gtfs.trips[tid].route_id :
                                tid \in {x \in DOMAIN sp_gtfs.trips : produced(x)}}
                IN /\ issue.object_type = Some("Stop")
                   /\ related[1].object_type = Some("Stop")
                   /\ \A k \in 2..Len(related) : related[k].object_type = Some("Route")
                   /\ {related[k].id : k \in 2..Len(related)} = routes
                   /\ Len(related) = 1 + Cardinality(routes))
    /\ [][(sp_pc = "trips" /\ sp_todo' # sp_todo) =>
            \* the trip taken by the step, its stop times and its route
            \A tid \in {x \in sp_todo : x \notin sp_todo'} :
            \A st \in {sp_gtfs.trips[tid].stop_times} :
            \A route \in {sp_gtfs.routes[sp_gtfs.trips[tid].route_id]} :
            \A kind \in {[i \in 1..(Len(st) - 1) |->
                            LET dd == distance_and_duration(st[i], st[i + 1])
                            IN IF IsSome(dd)
                               THEN issue_kind(Unwrap(dd)[1], Unwrap(dd)[2],
                                               route.route_type, sp_rules)
                               ELSE None]} :
            \* the pairs of the trip that raise an issue, each with its key
            \A key \in {[i \in {j \in DOMAIN kind : IsSome(kind[j])} |->
                            speed_key(st[i], st[i + 1], Unwrap(kind[i])[2], Unwrap(kind[i])[1])]} :
            \A entry \in {[id |-> route.id, name |-> Some(route.name),
                           object_type |-> Some(route.object_type)]} :
            \A k \in DOMAIN sp_map' :
                IF k \in DOMAIN sp_map
                THEN /\ sp_map'[k].object_id = sp_map[k].object_id
                     /\ sp_map'[k].related_objects =
                            IF (\A i \in DOMAIN key : key[i] # k)
                               \/ entry \in Range(sp_map[k].related_objects)
                            THEN sp_map[k].related_objects
                            ELSE Append(sp_map[k].related_objects, entry)
                ELSE \E first \in DOMAIN key :
                        /\ key[first] = k
                        /\ \A i \in DOMAIN key : key[i] = k => first <= i
                        /\ sp_map'[k].object_id = st[first].stop.id
                        /\ sp_map'[k].related_objects =
                              <<[id |-> st[first + 1].stop.id,
                                 name |-> Some(st[first + 1].stop.name),
                                 object_type |-> Some(st[first + 1].stop.object_type)], entry>>
         ]_vars

\* two trips of one route over the same two stops: one issue, the route listed once
C11_Witness ==
    /\ sp_pc = "done" /\ IsOk(Unwrap(sp_result))
    /\ Len(Val(Unwrap(sp_result))) = 1
    /\ sp_gtfs.trips[<<"Trip", 2>>].route_id = <<"Route", 1>>
    /\ sp_gtfs.trips[<<"Trip", 1>>].stop_times[1].stop.id = <<"Stop", 2>>
    /\ sp_gtfs.trips[<<"Trip", 1>>].stop_times[2].stop.id = <<"Stop", 1>>
    /\ sp_gtfs.trips[<<"Trip", 2>>].stop_times[1].stop.id = <<"Stop", 1>>
    /\ sp_gtfs.trips[<<"Trip", 2>>].stop_times[2].stop.id = <<"Stop", 2>>
    /\ Val(Unwrap(sp_result))[1].object_id \in {<<"Stop", 1>>, <<"Stop", 2>>}
    /\ Val(Unwrap(sp_result))[1].object_id # Val(Unwrap(sp_result))[1].related_objects[1].id
    /\ Len(Val(Unwrap(sp_result))[1].related_objects) = 2


\* C12: for every ExcessiveSpeed issue and every route listed in it, some
\* pair of stop times of a trip of that route between the two stops has
\* t > 0 and d/t > max_speed(route type); max_speed is the custom limit of
\* the mode when set and otherwise the default (tramway 100, subway 140,
\* rail 320, bus 120, ferry 90, cable car 30, gondola 45, funicular 40,
\* coach 120, air 1000, taxi 50, other 120 km/h), divided by 3.6; a custom
\* limit of one mode changes no other mode, and with the bus limit above the
\* speed of every bus segment no ExcessiveSpeed issue lists a bus route.
C12_ExcessiveSpeedLimits ==
    LET default == [Tramway |-> 100, Subway |-> 140, Rail |-> 320, Bus |-> 120, Ferry |-> 90,
                    CableCar |-> 30, Gondola |-> 45, Funicular |-> 40, Coach |-> 120,
                    Air |-> 1000, Taxi |-> 50, Other |-> 120]
        custom == [Tramway |-> sp_rules.max_tramway_speed, Subway |-> sp_rules.max_subway_speed,
                   Rail |-> sp_rules.max_rail_speed, Bus |-> sp_rules.max_bus_speed,
                   Ferry |-> sp_rules.max_ferry_speed, CableCar |-> sp_rules.max_cable_car_speed,
                   Gondola |-> sp_rules.max_gondola_speed,
                   Funicular |-> sp_rules.max_funicular_speed,
                   Coach |-> sp_rules.max_coach_speed, Air |-> sp_rules.max_air_speed,
                   Taxi |-> sp_rules.max_taxi_speed, Other |-> sp_rules.max_other_speed]
        kmh(rt) == IF IsSome(custom[rt]) THEN Unwrap(custom[rt]) ELSE default[rt]
        pairs == {<<tid, i>> \in (DOMAIN sp_gtfs.trips) \X (1..MaxStopTimes) :
                    i < Len(sp_gtfs.trips[tid].stop_times)}
        faster(w, rid) ==
            LET dep == sp_gtfs.trips[w[1]].stop_times[w[2]]
                arr == sp_gtfs.trips[w[1]].stop_times[w[2] + 1]
                d == Abs(Unwrap(dep.stop.latitude) - Unwrap(arr.stop.latitude))
                t == Unwrap(arr.arrival_time) - Unwrap(dep.departure_time)
            IN /\ sp_gtfs.trips[w[1]].route_id = rid
               /\ t > 0
               /\ 36 * d > 10 * kmh(sp_gtfs.routes[rid].route_type) * t
    IN sp_pc # "idle" =>
        /\ \A rt \in RouteTypes : max_speed(rt, sp_rules) = <<10 * kmh(rt), 36>>
        /\ (sp_pc = "done" /\ IsOk(Unwrap(sp_result))) =>
            \A n \in DOMAIN Unwrap(sp_issues) :
                LET issue == Unwrap(sp_issues)[n]
                IN issue.issue_type = "ExcessiveSpeed" =>
                    /\ Len(issue.related_objects) >= 2
                    /\ \A k \in 2..Len(issue.related_objects) :
                        LET rid == issue.related_objects[k].id
                        IN /\ \E w \in pairs :
                                /\ faster(w, rid)
                                /\ {sp_gtfs.trips[w[1]].stop_times[w[2]].stop.id,
                                    sp_gtfs.trips[w[1]].stop_times[w[2] + 1].stop.id}
                                     = {issue.object_id, issue.related_objects[1].id}
                           /\ sp_rules.max_bus_speed = Some(200) =>
                                sp_gtfs.routes[rid].route_type # "Bus"

\* with the custom tramway limit, a bus and a tramway run the same 3000 m in
\* the same time: the issue lists the bus route and not the tramway route
C12_Witness ==
    /\ sp_pc = "done" /\ IsOk(Unwrap(sp_result))
    /\ sp_rules.max_tramway_speed = Some(200)
    /\ sp_gtfs.trips[<<"Trip", 1>>].stop_times = sp_gtfs.trips[<<"Trip", 2>>].stop_times
    /\ \E n \in DOMAIN Unwrap(sp_issues) :
        /\ Unwrap(sp_issues)[n].issue_type = "ExcessiveSpeed"
        /\ Len(Unwrap(sp_issues)[n].related_objects) = 2
        /\ Unwrap(sp_issues)[n].related_objects[2].id = <<"Route", 1>>

---------------------------------------------------------------------------
(* validators/invalid_reference.rs: the links of the raw feed.  The ids    *)
(* are the strings of the files, so that one string can be the id of       *)
(* objects of two kinds.                                                   *)

MaxRefRows == 2       \* rows of the referencing file given to the rule

RefIds == {"a", "x"}
RowIds == <<"r1", "r2", "r3">>

RawStopTime(trip_id, stop_id) == [trip_id |-> trip_id, stop_id |-> stop_id]
RawTrip(id, service_id, route_id) ==
    [id |-> id, service_id |-> service_id, route_id |-> route_id, object_type |-> "Trip",
     name |-> <<"route id: ", route_id, ", service id: ", service_id>>]
RawRoute(id, agency_id) ==
    [id |-> id, agency_id |-> agency_id, object_type |-> "Route", name |-> <<id>>]
RawStop(id, parent_station) ==
    [id |-> id, parent_station |-> parent_station, object_type |-> "Stop", name |-> <<id>>]
RawAgency(id) == [id |-> id]
RawCalendar(id) == [id |-> id]
RawCalendarDate(service_id) == [service_id |-> service_id]

get_ids(objects) == {objects[i].id : i \in DOMAIN objects}

\* Ids::new: the known ids of each kind whose file was read
IdsNew(raw) ==
    LET m1 == IF IsOk(raw.trips) THEN Insert(EmptyMap, "Trip", get_ids(Val(raw.trips)))
              ELSE EmptyMap
        m2 == IF IsOk(raw.stops) THEN Insert(m1, "Stop", get_ids(Val(raw.stops))) ELSE m1
        m3 == IF IsOk(raw.routes) THEN Insert(m2, "Route", get_ids(Val(raw.routes))) ELSE m2
        m4 == IF IsSome(raw.calendar) /\ IsOk(Unwrap(raw.calendar))
              THEN Insert(m3, "Calendar", get_ids(Val(Unwrap(raw.calendar)))) ELSE m3
        m5 == IF IsOk(raw.agencies) THEN Insert(m4, "Agency", get_ids(Val(raw.agencies)))
              ELSE m4
        m6 == IF IsSome(raw.calendar_dates) /\ IsOk(Unwrap(raw.calendar_dates))
              THEN LET before == IF "Calendar" \in DOMAIN m5 THEN m5["Calendar"] ELSE {}
                       dates == Val(Unwrap(raw.calendar_dates))
                   IN Insert(m5, "Calendar",
                             before \cup {dates[i].service_id : i \in DOMAIN dates})
              ELSE m5
    IN m6

check_ref(ids, id, object_type) ==
    IF object_type \in DOMAIN ids /\ id \notin ids[object_type]
    THEN Some(check_ref_issue(id, object_type))
    ELSE None

OptMap(o, f(_)) == IF IsSome(o) THEN Some(f(Unwrap(o))) ELSE None

\* the variant that keeps every issue of the chain under a key of its own
collect_every(chain) == [i \in DOMAIN chain |-> chain[i]]

\* .map(|i| (i.object_id.clone(), i)).collect::<HashMap<_, _>>(): an issue replaces
\* the issue inserted before it under the same object id
collect_by_object_id(chain) ==
    [id \in {chain[i].object_id : i \in DOMAIN chain} |->
        LET last == CHOOSE i \in DOMAIN chain :
                        /\ chain[i].object_id = id
                        /\ \A j \in DOMAIN chain : chain[j].object_id = id => j <= i
        IN chain[last]]

\* into_values().collect(): the values in the order of the hash map
IntoValues(map) == {[i \in DOMAIN o |-> map[o[i]]] : o \in Orders(DOMAIN map)}

check_stop_times(ids, stop_times) ==
    collect_by_object_id(
        FlatMap(RowsOr(stop_times), LAMBDA st :
            OptMap(check_ref(ids, st.trip_id, "Trip"), LAMBDA i :
                WithDetails(i, "The trip is referenced by a stop time but does not exist")))
        \o FlatMap(RowsOr(stop_times), LAMBDA st :
            OptMap(check_ref(ids, st.stop_id, "Stop"), LAMBDA i :
                WithDetails(i, "The stop is referenced by a stop time but does not exist"))))

check_trips(ids, trips) ==
    collect_by_object_id(
        FlatMap(RowsOr(trips), LAMBDA trip :
            OptMap(check_ref(ids, trip.service_id, "Calendar"), LAMBDA i :
                AddRelatedObject(
                    WithDetails(i, "The service is referenced by a trip but does not exist"),
                    trip)))
        \o FlatMap(RowsOr(trips), LAMBDA trip :
            OptMap(check_ref(ids, trip.route_id, "Route"), LAMBDA i :
                AddRelatedObject(
                    WithDetails(i, "The route is referenced by a trip but does not exist"),
                    trip))))

check_routes(ids, routes) ==
    collect_by_object_id(
        FlatMap(RowsOr(routes), LAMBDA route :
            IF IsSome(route.agency_id)
            THEN OptMap(check_ref(ids, Unwrap(route.agency_id), "Agency"), LAMBDA i :
                    AddRelatedObject(
                        WithDetails(i, "The agency is referenced by a route but does not exist"),
                        route))
            ELSE None))

check_stops(ids, stops) ==
    collect_by_object_id(
        FlatMap(RowsOr(stops), LAMBDA stop :
            IF IsSome(stop.parent_station)
            THEN OptMap(check_ref(ids, Unwrap(stop.parent_station), "Stop"), LAMBDA i :
                    AddRelatedObject(
                        WithDetails(i,
                            "The stop is referenced as a stop's parent_station but does not exist"),
                        stop))
            ELSE None))

\* invalid_reference::validate: the outputs the hash orders allow
invalid_reference_validate(raw) ==
    LET id_container == IdsNew(raw)
    IN {a \o b \o c \o d :
            a \in IntoValues(check_stop_times(id_container, raw.stop_times)),
            b \in IntoValues(check_trips(id_container, raw.trips)),
            c \in IntoValues(check_routes(id_container, raw.routes)),
            d \in IntoValues(check_stops(id_container, raw.stops))}

\* the sequences of at most MaxRefRows rows, the i-th row built by row(i, x), x in S
RefRows(S, row(_, _)) ==
    UNION {{[i \in 1..n |-> row(i, c[i])] : c \in [1..n -> S]} : n \in 0..MaxRefRows}

UnreadableFile == Err("impossible to read csv file")

RefBase ==
    [stop_times |-> Ok(<<>>),
     trips |-> Ok(<<RawTrip("a", "a", "a")>>),
     routes |-> Ok(<<RawRoute("a", Some("a"))>>),
     stops |-> Ok(<<RawStop("a", None)>>),
     agencies |-> Ok(<<RawAgency("a")>>),
     calendar |-> Some(Ok(<<RawCalendar("a")>>)),
     calendar_dates |-> None]

\* feeds that vary one referencing file and the files it refers to
RefFeeds ==
    {[RefBase EXCEPT !.stop_times = st, !.trips = t, !.stops = s] :
        st \in {Ok(r) : r \in RefRows(RefIds \X RefIds,
                                      LAMBDA i, x : RawStopTime(x[1], x[2]))}
               \cup {UnreadableFile},
        t \in {RefBase.trips, UnreadableFile},
        s \in {RefBase.stops, UnreadableFile}}
    \cup
    {[RefBase EXCEPT !.trips = t, !.routes = r, !.calendar = c, !.calendar_dates = cd] :
        t \in {Ok(rows) : rows \in RefRows((RefIds \cup {"b"}) \X RefIds,
                                           LAMBDA i, x : RawTrip(RowIds[i], x[1], x[2]))},
        r \in {RefBase.routes, UnreadableFile},
        c \in {None, RefBase.calendar, Some(UnreadableFile)},
        cd \in {None, Some(Ok(<<RawCalendarDate("b")>>)), Some(UnreadableFile)}}
    \cup
    {[RefBase EXCEPT !.routes = r, !.agencies = a] :
        r \in {Ok(rows) : rows \in RefRows({None} \cup {Some(x) : x \in RefIds},
                                           LAMBDA i, x : RawRoute(RowIds[i], x))},
        a \in {RefBase.agencies, UnreadableFile}}
    \cup
    {[RefBase EXCEPT !.stops = s] :
        s \in {Ok(rows) : rows \in RefRows({None} \cup {Some(x) : x \in RefIds},
                                           LAMBDA i, x :
                                               RawStop(IF i = 1 THEN "a" ELSE RowIds[i], x))}}

RefInit ==
    /\ rule_in \in {<<"invalid_reference", f>> : f \in RefFeeds}
    /\ rule_out = <<>>

InvalidReference ==
    /\ rule_in # <<>> /\ rule_in[1] = "invalid_reference" /\ rule_out = <<>>
    /\ rule_out' \in {Some(out) : out \in invalid_reference_validate(rule_in[2])}
    /\ UNCHANGED <<rule_in, orchVars, speedVars, kindVars>>

InitRefs == RefInit /\ OrchIdle /\ SpeedIdle /\ KindIdle
NextRefs == InvalidReference
SpecRefs == InitRefs /\ [][NextRefs]_vars

---------------------------------------------------------------------------
(* Properties of invalid_reference, under SpecRefs *)

RefRan == rule_in # <<>> /\ rule_in[1] = "invalid_reference" /\ rule_out # <<>>

\* the ids of a kind its files define, taken from the files that were read
RefKnown(raw, kind) ==
    CASE kind = "Trip" -> get_ids(RowsOr(raw.trips))
      [] kind = "Stop" -> get_ids(RowsOr(raw.stops))
      [] kind = "Route" -> get_ids(RowsOr(raw.routes))
      [] kind = "Agency" -> get_ids(RowsOr(raw.agencies))
      [] kind = "Calendar" ->
            get_ids(OptRowsOr(raw.calendar))
            \cup {OptRowsOr(raw.calendar_dates)[i].service_id :
                    i \in DOMAIN OptRowsOr(raw.calendar_dates)}

\* the kinds of which a file is there and could not be read
RefUnreadable(raw) ==
    {k \in {"Trip"} : ~IsOk(raw.trips)}
    \cup {k \in {"Stop"} : ~IsOk(raw.stops)}
    \cup {k \in {"Route"} : ~IsOk(raw.routes)}
    \cup {k \in {"Agency"} : ~IsOk(raw.agencies)}
    \cup {k \in {"Calendar"} :
            \/ IsSome(raw.calendar) /\ ~IsOk(Unwrap(raw.calendar))
            \/ IsSome(raw.calendar_dates) /\ ~IsOk(Unwrap(raw.calendar_dates))}

\* the kinds of which some file was read
RefReadable(raw) ==
    {k \in {"Trip"} : IsOk(raw.trips)}
    \cup {k \in {"Stop"} : IsOk(raw.stops)}
    \cup {k \in {"Route"} : IsOk(raw.routes)}
    \cup {k \in {"Agency"} : IsOk(raw.agencies)}
    \cup {k \in {"Calendar"} :
            \/ IsSome(raw.calendar) /\ IsOk(Unwrap(raw.calendar))
            \/ IsSome(raw.calendar_dates) /\ IsOk(Unwrap(raw.calendar_dates))}

\* the references of the feed: the id referenced, the kind referred to, the
\* details of the relationship and the referencing object (none for a stop time)
References(raw) ==
    {<<RowsOr(raw.stop_times)[i].trip_id, "Trip",
       "The trip is referenced by a stop time but does not exist", None>> :
        i \in DOMAIN RowsOr(raw.stop_times)}
    \cup {<<RowsOr(raw.stop_times)[i].stop_id, "Stop",
            "The stop is referenced by a stop time but does not exist", None>> :
        i \in DOMAIN RowsOr(raw.stop_times)}
    \cup {<<RowsOr(raw.trips)[i].service_id, "Calendar",
            "The service is referenced by a trip but does not exist",
            Some(RowsOr(raw.trips)[i].id)>> : i \in DOMAIN RowsOr(raw.trips)}
    \cup {<<RowsOr(raw.trips)[i].route_id, "Route",
            "The route is referenced by a trip but does not exist",
            Some(RowsOr(raw.trips)[i].id)>> : i \in DOMAIN RowsOr(raw.trips)}
    \cup {<<Unwrap(RowsOr(raw.routes)[i].agency_id), "Agency",
            "The agency is referenced by a route but does not exist",
            Some(RowsOr(raw.routes)[i].id)>> :
        i \in {j \in DOMAIN RowsOr(raw.routes) : IsSome(RowsOr(raw.routes)[j].agency_id)}}
    \cup {<<Unwrap(RowsOr(raw.stops)[i].parent_station), "Stop",
            "The stop is referenced as a stop's parent_station but does not exist",
            Some(RowsOr(raw.stops)[i].id)>> :
        i \in {j \in DOMAIN RowsOr(raw.stops) : IsSome(RowsOr(raw.stops)[j].parent_station)}}

\* the references to an id that the files read for its kind do not define
MissingReferences(raw) ==
    {r \in References(raw) : r[2] \in RefReadable(raw) /\ r[1] \notin RefKnown(raw, r[2])}

\* C13: for each of the six relationships and every referenced id absent from
\* the readable ids of the target kind, the output holds an InvalidReference
\* Fatal issue with that id as object_id, the target kind as object_type and
\* the relationship in its details, also when the same id is missing in the
\* other relationship of the same file.
C13_EveryMissingReference ==
    RefRan =>
        \A r \in MissingReferences(rule_in[2]) :
            \E n \in DOMAIN Unwrap(rule_out) :
                LET issue == Unwrap(rule_out)[n]
                IN /\ issue.severity = Fatal
                   /\ issue.issue_type = "InvalidReference"
                   /\ issue.object_id = r[1]
                   /\ issue.object_type = Some(r[2])
                   /\ issue.details = Some(r[3])

\* C14: at most one InvalidReference issue per missing id and relationship,
\* however many rows reference the id; the issues of the relationships of
\* trips, routes and parent stations carry exactly one related object, and it
\* is an object that references the id.
C14_OneIssuePerMissingId ==
    RefRan =>
        LET out == Unwrap(rule_out)
        IN /\ \A n, m \in DOMAIN out :
                (/\ out[n].object_id = out[m].object_id
                 /\ out[n].details = out[m].details) => n = m
           /\ \A n \in DOMAIN out :
                \E r \in MissingReferences(rule_in[2]) :
                    /\ out[n].object_id = r[1]
                    /\ out[n].details = Some(r[3])
                    /\ IF IsSome(r[4])
                       THEN /\ Len(out[n].related_objects) = 1
                            /\ out[n].related_objects[1].id = Unwrap(r[4])
                       ELSE out[n].related_objects = <<>>

\* two trips refer to the same missing route: one issue, with one of the trips
C14_Witness ==
    /\ RefRan
    /\ Len(RowsOr(rule_in[2].trips)) = 2
    /\ \A i \in 1..2 : RowsOr(rule_in[2].trips)[i].route_id = "x"
    /\ \A i \in 1..2 : RowsOr(rule_in[2].trips)[i].service_id = "a"
    /\ IsOk(rule_in[2].routes)
    /\ Len(Unwrap(rule_out)) = 1
    /\ Unwrap(rule_out)[1].object_id = "x"
    /\ Len(Unwrap(rule_out)[1].related_objects) = 1

\* C15: when a file of a target kind could not be read, no InvalidReference
\* issue refers to that kind, and every missing reference to a kind that was
\* read still has an issue with its id.
C15_UnreadableKindSkipped ==
    RefRan =>
        /\ \A n \in DOMAIN Unwrap(rule_out) :
            \A k \in RefUnreadable(rule_in[2]) : Unwrap(rule_out)[n].object_type # Some(k)
        /\ \A r \in MissingReferences(rule_in[2]) :
            \E n \in DOMAIN Unwrap(rule_out) : Unwrap(rule_out)[n].object_id = r[1]

---------------------------------------------------------------------------
(* validators/raw_gtfs.rs: duplicated ids in the files of the raw feed *)

MAX_DISPLAYED_PT_SEQUENCES == 10

\* the one-character ellipsis U+2026 of the details, written in ASCII
Ellipsis == "..."

MaxDupRows == 3       \* rows of a file given to check_duplicates
MaxShapeDups == 11    \* repeated rows of a shape given to check_shapes_duplicates
MaxShapePoints == 2   \* distinct points of that shape

\* a row of a file: its id and the object type of its file
IdRow(id, object_type) == [id |-> id, object_type |-> object_type]
ShapePoint(id, sequence) == [id |-> id, sequence |-> sequence]

\* the variant that reports an id once, however often it is repeated
check_duplicates_once(objects) ==
    LET rows == RowsOr(objects)
        second == {i \in DOMAIN rows :
                     Cardinality({j \in 1..(i - 1) : rows[j].id = rows[i].id}) = 1}
        f[i \in 0..Len(rows)] ==
            IF i = 0 THEN <<>>
            ELSE IF i \in second
                 THEN Append(f[i - 1],
                             WithObjectType(IssueNew(Error, "DuplicateObjectId", rows[i].id),
                                            rows[i].object_type))
                 ELSE f[i - 1]
    IN f[Len(rows)]

check_duplicates(objects) ==
    LET rows == RowsOr(objects)
        \* st[i]: the ids seen and the issues pushed after i rows
        st[i \in 0..Len(rows)] ==
            IF i = 0 THEN [ids |-> {}, issues |-> <<>>]
            ELSE LET id == rows[i].id
                     prev == st[i - 1]
                 IN [ids |-> prev.ids \cup {id},
                     issues |->
                        IF id \in prev.ids
                        THEN Append(prev.issues,
                                    WithObjectType(IssueNew(Error, "DuplicateObjectId", id),
                                                   rows[i].object_type))
                        ELSE prev.issues]
    IN st[Len(rows)].issues

\* itertools join(", ") of the numbers as they are displayed
JoinSequences(s) ==
    LET f[i \in 0..Len(s)] ==
            IF i = 0 THEN ""
            ELSE IF i = 1 THEN ToString(s[1])
            ELSE f[i - 1] \o ", " \o ToString(s[i])
    IN f[Len(s)]

\* the map from a shape id to its repeated sequence numbers, in row order
shape_issues(objects) ==
    LET rows == RowsOr(objects)
        st[i \in 0..Len(rows)] ==
            IF i = 0 THEN [ids |-> {}, shape_issues |-> EmptyMap]
            ELSE LET id == <<rows[i].id, rows[i].sequence>>
                     prev == st[i - 1]
                     before == prev.shape_issues
                 IN [ids |-> prev.ids \cup {id},
                     shape_issues |->
                        IF id \in prev.ids
                        THEN Insert(before, rows[i].id,
                                    Append(IF rows[i].id \in DOMAIN before
                                           THEN before[rows[i].id] ELSE <<>>,
                                           rows[i].sequence))
                        ELSE before]
    IN st[Len(rows)].shape_issues

\* the variant that displays one sequence number less before the ellipsis
shape_issue_short(shape_id, duplicate_sequences) ==
    LET more_dup == IF Len(duplicate_sequences) > MAX_DISPLAYED_PT_SEQUENCES - 1
                    THEN Ellipsis ELSE ""
        d == "Shape has duplicated pt_sequence: "
             \o JoinSequences(Truncate(duplicate_sequences, MAX_DISPLAYED_PT_SEQUENCES - 1))
             \o more_dup
    IN WithDetails(WithObjectType(IssueNew(Error, "DuplicateObjectId", shape_id), "Shape"), d)

shape_issue(shape_id, duplicate_sequences) ==
    LET more_dup == IF Len(duplicate_sequences) > MAX_DISPLAYED_PT_SEQUENCES
                    THEN Ellipsis ELSE ""
        d == "Shape has duplicated pt_sequence: "
             \o JoinSequences(Truncate(duplicate_sequences, MAX_DISPLAYED_PT_SEQUENCES))
             \o more_dup
    IN WithDetails(WithObjectType(IssueNew(Error, "DuplicateObjectId", shape_id), "Shape"), d)

\* check_shapes_duplicates: the outputs the order of the hash map allows
check_shapes_duplicates(objects) ==
    LET map == shape_issues(objects)
    IN {[i \in DOMAIN o |-> shape_issue(o[i], map[o[i]])] : o \in Orders(DOMAIN map)}

OkOrEmpty(opt) == IF IsSome(opt) THEN Unwrap(opt) ELSE Ok(<<>>)

raw_gtfs_validate(raw) ==
    {check_duplicates(raw.stops)
     \o check_duplicates(raw.routes)
     \o check_duplicates(raw.trips)
     \o check_duplicates(raw.agencies)
     \o check_duplicates(OkOrEmpty(raw.pathways))
     \o check_duplicates(OkOrEmpty(raw.calendar))
     \o check_duplicates(OkOrEmpty(raw.fare_attributes))
     \o shapes : shapes \in check_shapes_duplicates(OkOrEmpty(raw.shapes))}

\* the files check_duplicates reads, with the object type of their rows
DupFiles ==
    [stops |-> "Stop", routes |-> "Route", trips |-> "Trip", agencies |-> "Agency",
     pathways |-> "Pathway", calendar |-> "Calendar", fare_attributes |-> "Fare"]
DupOptional == {"pathways", "calendar", "fare_attributes"}

DupRows(object_type) ==
    UNION {{[i \in 1..n |-> IdRow(c[i], object_type)] : c \in [1..n -> {"a", "b"}]} :
            n \in 0..MaxDupRows}

DupBase ==
    [stops |-> Ok(<<IdRow("a", "Stop"), IdRow("a", "Stop")>>),
     routes |-> Ok(<<IdRow("a", "Route")>>),
     trips |-> Ok(<<IdRow("a", "Trip"), IdRow("b", "Trip"), IdRow("b", "Trip")>>),
     agencies |-> Ok(<<IdRow("a", "Agency")>>),
     pathways |-> None,
     calendar |-> Some(Ok(<<IdRow("a", "Calendar")>>)),
     fare_attributes |-> None,
     shapes |-> None]

\* the points 1..n of shape "A", then k repeated rows of it going down from n
\* again and again, between b rows of the one point of shape "B"
ShapeRows(n, k, b) ==
    [i \in 1..Min(b, 1) |-> ShapePoint("B", 1)]
    \o [i \in 1..n |-> ShapePoint("A", i)]
    \o [i \in 1..k |-> ShapePoint("A", n - ((i - 1) % n))]
    \o [i \in 1..Max(b - 1, 0) |-> ShapePoint("B", 1)]

DupFeeds ==
    {[DupBase EXCEPT ![f] = IF f \in DupOptional THEN Some(Ok(rows)) ELSE Ok(rows)] :
        <<f, rows>> \in UNION {{<<g, r>> : r \in DupRows(DupFiles[g])} : g \in DOMAIN DupFiles}}
    \cup {[DupBase EXCEPT ![f] = IF f \in DupOptional THEN Some(UnreadableFile)
                                 ELSE UnreadableFile] : f \in DOMAIN DupFiles}
    \cup {[DupBase EXCEPT !.shapes = s] :
            s \in {Some(UnreadableFile)}
                  \cup {Some(Ok(ShapeRows(n, k, b))) :
                            n \in 1..MaxShapePoints, k \in 0..MaxShapeDups, b \in 0..3}}

DupInit ==
    /\ rule_in \in {<<"raw_gtfs", f>> : f \in DupFeeds}
    /\ rule_out = <<>>

RawGtfsValidate ==
    /\ rule_in # <<>> /\ rule_in[1] = "raw_gtfs" /\ rule_out = <<>>
    /\ rule_out' \in {Some(out) : out \in raw_gtfs_validate(rule_in[2])}
    /\ UNCHANGED <<rule_in, orchVars, speedVars, kindVars>>

InitDups == DupInit /\ OrchIdle /\ SpeedIdle /\ KindIdle
NextDups == RawGtfsValidate
SpecDups == InitDups /\ [][NextDups]_vars

---------------------------------------------------------------------------
(* Properties of raw_gtfs, under SpecDups *)

DupRan == rule_in # <<>> /\ rule_in[1] = "raw_gtfs" /\ rule_out # <<>>

\* the rows read from file f, none when the file is absent or unreadable
DupRowsRead(raw, f) == IF f \in DupOptional THEN OptRowsOr(raw[f]) ELSE RowsOr(raw[f])

\* C16: for each of stops, routes, trips, agencies, pathways, calendar and
\* fare_attributes, an id occurring k times in the file yields exactly k - 1
\* DuplicateObjectId Error issues with that id and the object type of the
\* file (rows minus distinct ids in total); an absent or unreadable file
\* yields none.
C16_OneIssuePerRepeat ==
    DupRan =>
        LET out == Unwrap(rule_out)
            raw == rule_in[2]
            of_type(t) == {n \in DOMAIN out : out[n].object_type = Some(t)}
        IN \A f \in DOMAIN DupFiles :
            LET rows == DupRowsRead(raw, f)
                ids == {rows[i].id : i \in DOMAIN rows}
            IN /\ \A n \in of_type(DupFiles[f]) :
                    /\ out[n].severity = Error
                    /\ out[n].issue_type = "DuplicateObjectId"
                    /\ out[n].object_id \in ids
               /\ \A id \in ids :
                    Cardinality({n \in of_type(DupFiles[f]) : out[n].object_id = id})
                        = Cardinality({i \in DOMAIN rows : rows[i].id = id}) - 1
               /\ Cardinality(of_type(DupFiles[f])) = Len(rows) - Cardinality(ids)

\* pathways.txt holds the same id three times: two issues of type Pathway
C16_Witness ==
    /\ DupRan
    /\ Len(OptRowsOr(rule_in[2].pathways)) = 3
    /\ \A i \in 1..3 : OptRowsOr(rule_in[2].pathways)[i].id = "b"
    /\ Cardinality({n \in DOMAIN Unwrap(rule_out) :
                        /\ Unwrap(rule_out)[n].object_type = Some("Pathway")
                        /\ Unwrap(rule_out)[n].object_id = "b"}) = 2

\* C17: for shapes, exactly one DuplicateObjectId Error per shape_id with at
\* least one repeated (shape_id, pt_sequence), none for the other shapes; its
\* details list the repeated sequence numbers in row order, at most the first
\* 10, followed by an ellipsis exactly when more than 10 were repeated.
C17_ShapeDuplicates ==
    DupRan =>
        LET out == Unwrap(rule_out)
            rows == OptRowsOr(rule_in[2].shapes)
            shapes == {n \in DOMAIN out : out[n].object_type = Some("Shape")}
            repeated(id) == {i \in DOMAIN rows :
                                /\ rows[i].id = id
                                /\ \E j \in 1..(i - 1) : rows[j] = rows[i]}
            \* the m-th repeated row of the shape, in row order
            nth(id, m) == CHOOSE i \in repeated(id) :
                            Cardinality({j \in repeated(id) : j <= i}) = m
            shown(id) == Min(Cardinality(repeated(id)), 10)
            listed(id) ==
                LET f[m \in 0..shown(id)] ==
                        IF m = 0 THEN ""
                        ELSE f[m - 1] \o (IF m = 1 THEN "" ELSE ", ")
                             \o ToString(rows[nth(id, m)].sequence)
                IN f[shown(id)]
        IN /\ \A id \in {rows[i].id : i \in DOMAIN rows} :
                Cardinality({n \in shapes : out[n].object_id = id})
                    = IF repeated(id) # {} THEN 1 ELSE 0
           /\ \A n \in shapes :
                /\ out[n].severity = Error
                /\ out[n].issue_type = "DuplicateObjectId"
                /\ repeated(out[n].object_id) # {}
                /\ out[n].details =
                    Some("Shape has duplicated pt_sequence: " \o listed(out[n].object_id)
                         \o (IF Cardinality(repeated(out[n].object_id)) > 10
                             THEN Ellipsis ELSE ""))

\* eleven repeated rows of shape "A", not in increasing order, and one of "B"
C17_Witness ==
    /\ DupRan
    /\ Len(Unwrap(rule_out)) >= 2
    /\ \E n \in DOMAIN Unwrap(rule_out) :
        /\ Unwrap(rule_out)[n].object_id = "A"
        /\ Unwrap(rule_out)[n].details =
            Some("Shape has duplicated pt_sequence: 2, 1, 2, 1, 2, 1, 2, 1, 2, 1" \o Ellipsis)
    /\ \E n \in DOMAIN Unwrap(rule_out) :
        /\ Unwrap(rule_out)[n].object_id = "B"
        /\ Unwrap(rule_out)[n].details = Some("Shape has duplicated pt_sequence: 1, 1")

---------------------------------------------------------------------------
(* validators/file_presence.rs.  A file name is the sequence of its parts, *)
(* cut where one recognized name is the end of another one                 *)
(* ("location_group_" "stops.txt") and after a directory ("dir/").         *)

MaxExtraEntries == 2  \* entries of the file list besides the mandatory ones

MANDATORY_FILES ==
    << <<"agency.txt">>, <<"routes.txt">>, <<"stops.txt">>, <<"stop_times.txt">>,
       <<"trips.txt">> >>

OPTIONAL_FILES ==
    << <<"fare_attributes.txt">>, <<"calendar.txt">>, <<"calendar_dates.txt">>,
       <<"fare_rules.txt">>, <<"fare_media.txt">>, <<"fare_products.txt">>,
       <<"fare_leg_rules.txt">>, <<"fare_leg_join_rules.txt">>, <<"feed_info.txt">>,
       <<"frequencies.txt">>, <<"transfers.txt">>, <<"shapes.txt">>, <<"pathways.txt">>,
       <<"levels.txt">>, <<"feed_info.txt">>, <<"translations.txt">>,
       <<"attributions.txt">>, <<"timeframes.txt">>, <<"areas.txt">>,
       <<"stop_", "areas.txt">>, <<"networks.txt">>, <<"route_", "networks.txt">>,
       <<"location_groups.txt">>, <<"location_group_", "stops.txt">>,
       <<"locations.geojson">>, <<"booking_rules.txt">> >>

\* str::ends_with
ends_with(f, m) == Len(f) >= Len(m) /\ SubSeq(f, Len(f) - Len(m) + 1, Len(f)) = m

\* the variant that looks for an entry equal to the mandatory name
missing_files_exact(raw) ==
    LET kept == SelectSeq(MANDATORY_FILES,
                          LAMBDA m : ~(\E i \in DOMAIN raw.files : raw.files[i] = m))
    IN [i \in DOMAIN kept |->
            WithDetails(IssueNew(Fatal, "MissingMandatoryFile", kept[i]),
                        "The mandatory file was not found")]

missing_files(raw) ==
    LET kept == SelectSeq(MANDATORY_FILES,
                          LAMBDA m : ~(\E i \in DOMAIN raw.files :
                                            ends_with(raw.files[i], m)))
    IN [i \in DOMAIN kept |->
            WithDetails(IssueNew(Fatal, "MissingMandatoryFile", kept[i]),
                        "The mandatory file was not found")]

extra_files(raw) ==
    LET kept == SelectSeq(raw.files,
                          LAMBDA f :
                            /\ ~(\E i \in DOMAIN MANDATORY_FILES : ends_with(f, MANDATORY_FILES[i]))
                            /\ ~(\E i \in DOMAIN OPTIONAL_FILES : ends_with(f, OPTIONAL_FILES[i])))
    IN [i \in DOMAIN kept |->
            WithDetails(IssueNew(Information, "ExtraFile", kept[i]),
                        "This file shouldn't be in the archive")]

file_presence_validate(raw) == missing_files(raw) \o extra_files(raw)

\* entries an archive lists besides the mandatory files at its root
OtherEntries ==
    {<<"calendar.txt">>, <<"location_group_", "stops.txt">>, <<"dir/", "trips.txt">>,
     <<"README.md">>, <<"dir/", "notes.txt">>}

\* some of the mandatory files, then at most MaxExtraEntries other entries
FileLists ==
    {SelectSeq(MANDATORY_FILES, LAMBDA m : m \in present) \o others :
        present \in SUBSET Range(MANDATORY_FILES),
        others \in UNION {[1..n -> OtherEntries] : n \in 0..MaxExtraEntries}}

FilesInit ==
    /\ rule_in \in {<<"file_presence", [files |-> l]>> : l \in FileLists}
    /\ rule_out = <<>>

FilePresence ==
    /\ rule_in # <<>> /\ rule_in[1] = "file_presence" /\ rule_out = <<>>
    /\ rule_out' = Some(file_presence_validate(rule_in[2]))
    /\ UNCHANGED <<rule_in, orchVars, speedVars, kindVars>>

InitFiles == FilesInit /\ OrchIdle /\ SpeedIdle /\ KindIdle
NextFiles == FilePresence
SpecFiles == InitFiles /\ [][NextFiles]_vars

\* C18: exactly one MissingMandatoryFile Fatal issue for each of agency.txt,
\* routes.txt, stops.txt, stop_times.txt and trips.txt that is the suffix of
\* no entry of the file list, exactly one ExtraFile Information issue for each
\* entry that ends with no recognized mandatory or optional name, nothing
\* else, and every MissingMandatoryFile issue before every ExtraFile issue.
C18_MissingThenExtra ==
    (rule_in # <<>> /\ rule_in[1] = "file_presence" /\ rule_out # <<>>) =>
        LET out == Unwrap(rule_out)
            files == rule_in[2].files
            suffix(f, m) == \E k \in 0..Len(f) : SubSeq(f, k + 1, Len(f)) = m
            mandatory == {<<"agency.txt">>, <<"routes.txt">>, <<"stops.txt">>,
                          <<"stop_times.txt">>, <<"trips.txt">>}
            absent == {m \in mandatory : \A i \in DOMAIN files : ~suffix(files[i], m)}
            recognized == mandatory \cup Range(OPTIONAL_FILES)
            extra == {i \in DOMAIN files : \A m \in recognized : ~suffix(files[i], m)}
            missing_at == {n \in DOMAIN out : out[n].issue_type = "MissingMandatoryFile"}
            extra_at == {n \in DOMAIN out : out[n].issue_type = "ExtraFile"}
        IN /\ DOMAIN out = missing_at \cup extra_at
           /\ \A n \in missing_at : out[n].severity = Fatal /\ out[n].object_id \in absent
           /\ \A m \in absent : Cardinality({n \in missing_at : out[n].object_id = m}) = 1
           /\ \A n \in extra_at :
                /\ out[n].severity = Information
                /\ \E i \in extra : files[i] = out[n].object_id
           /\ \A i \in extra :
                Cardinality({n \in extra_at : out[n].object_id = files[i]})
                    = Cardinality({j \in extra : files[j] = files[i]})
           /\ Len(out) = Cardinality(absent) + Cardinality(extra)
           /\ \A n \in missing_at, m \in extra_at : n < m

\* trips.txt is only there in a directory, stop_times.txt is not there and an
\* unknown file is listed: one file is missing and one is extra
C18_Witness ==
    /\ rule_in # <<>> /\ rule_in[1] = "file_presence" /\ rule_out # <<>>
    /\ \E i \in DOMAIN rule_in[2].files : rule_in[2].files[i] = <<"dir/", "trips.txt">>
    /\ \A i \in DOMAIN rule_in[2].files : rule_in[2].files[i] # <<"trips.txt">>
    /\ Len(Unwrap(rule_out)) = 2
    /\ Unwrap(rule_out)[1].issue_type = "MissingMandatoryFile"
    /\ Unwrap(rule_out)[1].object_id = <<"stop_times.txt">>
    /\ Unwrap(rule_out)[2].issue_type = "ExtraFile"
    /\ Unwrap(rule_out)[2].object_id = <<"README.md">>

---------------------------------------------------------------------------
(* validators/unused_stop.rs *)

MaxUnusedStops == 3   \* stops of the feed given to the rule

\* the ids inserted by the loop over the trips and their stop times
used_by_stop_times(g) ==
    UNION {{g.trips[t].stop_times[i].stop.id : i \in DOMAIN g.trips[t].stop_times} :
            t \in DOMAIN g.trips}

\* the loop over gtfs.stops.values(), which visits the stops in the order of
\* the hash map and reads used_stops while it grows
used_with_parents(g, used_stops, order) ==
    LET f[i \in 0..Len(order)] ==
            IF i = 0 THEN used_stops
            ELSE LET stop == g.stops[order[i]]
                     prev == f[i - 1]
                 IN IF IsSome(stop.parent_station) /\ stop.id \in prev
                    THEN prev \cup {Unwrap(stop.parent_station)}
                    ELSE prev
    IN f[Len(order)]

make_unused_stop_issue(stop) == IssueNewWithObj(Information, "UnusedStop", stop)

\* validate, for one order of the values of gtfs.stops
unused_stop_validate(g, order) ==
    LET used_stops == used_with_parents(g, used_by_stop_times(g), order)
        stops == [i \in DOMAIN order |-> g.stops[order[i]]]
        kept == SelectSeq(stops, LAMBDA stop :
                    /\ stop.location_type \in {"StopPoint", "StopArea"}
                    /\ stop.id \notin used_stops)
    IN [i \in DOMAIN kept |-> make_unused_stop_issue(kept[i])]

UnusedStopIds(n) == {<<"Stop", i>> : i \in 1..n}

\* n stops, each with a location type and no parent or another stop as parent;
\* one trip stops at some of the stops
UnusedFeeds(n) ==
    {[stops |-> [id \in UnusedStopIds(n) |->
                    Stop(id[2], types[id], None, None, parents[id], "InformationNotAvailable")],
      trips |-> MapById(<<SpeedTrip(1, 1,
                    [i \in DOMAIN visited |->
                        StopTime(Stop(visited[i][2], types[visited[i]], None, None,
                                      parents[visited[i]], "InformationNotAvailable"),
                                 None)])>>)] :
        types \in [UnusedStopIds(n) -> {"StopPoint", "StopArea", "StationEntrance"}],
        parents \in {p \in [UnusedStopIds(n) -> {None} \cup {Some(x) : x \in UnusedStopIds(n)}] :
                        \A id \in UnusedStopIds(n) : p[id] # Some(id)},
        visited \in {<<>>} \cup {<<x>> : x \in UnusedStopIds(n)}
                    \cup {<<<<"Stop", 1>>, <<"Stop", 2>>>>}}

UnusedInit ==
    /\ rule_in \in {<<"unused_stop", g>> : g \in UnusedFeeds(MaxUnusedStops)}
    /\ rule_out = <<>>

UnusedStop ==
    /\ rule_in # <<>> /\ rule_in[1] = "unused_stop" /\ rule_out = <<>>
    /\ \E order \in Orders(DOMAIN rule_in[2].stops) :
        rule_out' = Some(unused_stop_validate(rule_in[2], order))
    /\ UNCHANGED <<rule_in, orchVars, speedVars, kindVars>>

InitUnused == UnusedInit /\ OrchIdle /\ SpeedIdle /\ KindIdle
NextUnused == UnusedStop
SpecUnused == InitUnused /\ [][NextUnused]_vars

\* C19: UnusedStop (Information) is reported for exactly the stops of type
\* StopPoint or StopArea that no stop time references and that are not the
\* parent_station of a stop referenced by a stop time, whatever the order in
\* which the stops are visited, also when the parent of a referenced stop has
\* a parent itself.
C19_UnusedStopsExactly ==
    (rule_in # <<>> /\ rule_in[1] = "unused_stop" /\ rule_out # <<>>) =>
        LET out == Unwrap(rule_out)
            g == rule_in[2]
            referenced == {id \in DOMAIN g.stops :
                            \E t \in DOMAIN g.trips : \E i \in DOMAIN g.trips[t].stop_times :
                                g.trips[t].stop_times[i].stop.id = id}
            parents == {id \in DOMAIN g.stops :
                            \E c \in referenced : g.stops[c].parent_station = Some(id)}
            unused == {id \in DOMAIN g.stops :
                        /\ g.stops[id].location_type \in {"StopPoint", "StopArea"}
                        /\ id \notin referenced \cup parents}
        IN /\ \A n \in DOMAIN out :
                /\ out[n].issue_type = "UnusedStop"
                /\ out[n].severity = Information
                /\ out[n].object_id \in unused
           /\ \A id \in unused : Cardinality({n \in DOMAIN out : out[n].object_id = id}) = 1

---------------------------------------------------------------------------
(* validators/duplicate_stops.rs *)

MaxDupStops == 2      \* stops of the feed besides the first one

too_close_stops(stop_a, stop_b) ==
    IF /\ IsSome(stop_a.longitude) /\ IsSome(stop_a.latitude)
       /\ IsSome(stop_b.longitude) /\ IsSome(stop_b.latitude)
    THEN LET d == haversine_distance(Unwrap(stop_a.longitude), Unwrap(stop_a.latitude),
                                     Unwrap(stop_b.longitude), Unwrap(stop_b.latitude))
         IN CASE stop_a.location_type = "StopPoint" -> d < 2
              [] stop_a.location_type = "StopArea" -> d < 100
              [] OTHER -> FALSE
    ELSE FALSE

duplicate_stops(stop_a, stop_b) ==
    /\ stop_a.name = stop_b.name
    /\ stop_a.location_type = stop_b.location_type
    /\ too_close_stops(stop_a, stop_b)

make_duplicate_stops_issue(a, b) ==
    AddRelatedObject(IssueNewWithObj(Information, "DuplicateStops", a), b)

\* the variant that pairs every element with every other one, in both directions
tuple_permutations(s) ==
    LET row[i \in 0..Len(s)] ==
            IF i = 0 THEN <<>>
            ELSE row[i - 1] \o [j \in 1..(i - 1) |-> <<s[i], s[j]>>]
                            \o [j \in 1..(Len(s) - i) |-> <<s[i], s[i + j]>>]
    IN row[Len(s)]

\* itertools tuple_combinations: the pairs (s[i], s[j]), i < j, by i and then by j
tuple_combinations(s) ==
    LET row[i \in 0..Len(s)] ==
            IF i = 0 THEN <<>>
            ELSE row[i - 1] \o [j \in 1..(Len(s) - i) |-> <<s[i], s[i + j]>>]
    IN row[Len(s)]

\* validate, for one order of the values of gtfs.stops
duplicate_stops_validate(g, order) ==
    LET stops == SelectSeq([i \in DOMAIN order |-> g.stops[order[i]]],
                           LAMBDA stop : stop.location_type # "StationEntrance")
        pairs == SelectSeq(tuple_combinations(stops),
                           LAMBDA p : duplicate_stops(p[1], p[2]))
    IN [i \in DOMAIN pairs |-> make_duplicate_stops_issue(pairs[i][1], pairs[i][2])]

\* a stop of one of two names, at 0, 2 or 100 m on the meridian or without coordinates
DupStop(n, location_type, name, place) ==
    [Stop(n, location_type,
          IF IsSome(place) THEN Some(0) ELSE None, place, None, "InformationNotAvailable")
     EXCEPT !.name = <<"name", "Stop", name>>]

DupStopChoices ==
    ({"StopPoint", "StopArea"} \X (1..2) \X {None, Some(0), Some(2), Some(100)})
    \cup ({"StationEntrance", "BoardingArea"} \X {1} \X {Some(0)})

\* a first stop, a stop point or a stop area at 0 m, and n others
DupStopFeeds(n) ==
    {[stops |-> MapById(<<DupStop(1, first, 1, Some(0))>>
                        \o [i \in 1..n |->
                                DupStop(i + 1, c[i][1], c[i][2], c[i][3])])] :
        first \in {"StopPoint", "StopArea"},
        c \in [1..n -> DupStopChoices]}

DupStopsInit ==
    /\ rule_in \in {<<"duplicate_stops", g>> : g \in DupStopFeeds(MaxDupStops)}
    /\ rule_out = <<>>

DuplicateStops ==
    /\ rule_in # <<>> /\ rule_in[1] = "duplicate_stops" /\ rule_out = <<>>
    /\ \E order \in Orders(DOMAIN rule_in[2].stops) :
        rule_out' = Some(duplicate_stops_validate(rule_in[2], order))
    /\ UNCHANGED <<rule_in, orchVars, speedVars, kindVars>>

InitDupStops == DupStopsInit /\ OrchIdle /\ SpeedIdle /\ KindIdle
NextDupStops == DuplicateStops
SpecDupStops == InitDupStops /\ [][NextDupStops]_vars

\* C20: exactly one DuplicateStops Information issue per unordered pair of
\* distinct stops, neither a StationEntrance, that share name and location
\* type, both have coordinates and lie closer than 2 m (StopPoint) or 100 m
\* (StopArea); so subject and related stop of every issue share name and
\* location type and respect the threshold of their type, no pair is reported
\* twice or in both directions, and no stop of another type is reported.
C20_OneIssuePerClosePair ==
    (rule_in # <<>> /\ rule_in[1] = "duplicate_stops" /\ rule_out # <<>>) =>
        LET out == Unwrap(rule_out)
            stops == rule_in[2].stops
            located(s) == IsSome(s.longitude) /\ IsSome(s.latitude)
            metres(a, b) == Abs(Unwrap(a.latitude) - Unwrap(b.latitude))
            close(a, b) ==
                /\ a.id # b.id
                /\ a.location_type # "StationEntrance" /\ b.location_type # "StationEntrance"
                /\ a.name = b.name /\ a.location_type = b.location_type
                /\ located(a) /\ located(b)
                /\ \/ a.location_type = "StopPoint" /\ metres(a, b) < 2
                   \/ a.location_type = "StopArea" /\ metres(a, b) < 100
            about(n) == {out[n].object_id, out[n].related_objects[1].id}
        IN /\ \A n \in DOMAIN out :
                /\ out[n].issue_type = "DuplicateStops"
                /\ out[n].severity = Information
                /\ out[n].object_type = Some("Stop")
                /\ Len(out[n].related_objects) = 1
                /\ out[n].object_id \in DOMAIN stops
                /\ out[n].related_objects[1].id \in DOMAIN stops
                /\ close(stops[out[n].object_id], stops[out[n].related_objects[1].id])
                /\ stops[out[n].object_id].location_type \in {"StopPoint", "StopArea"}
           /\ \A a, b \in DOMAIN stops :
                close(stops[a], stops[b]) =>
                    Cardinality({n \in DOMAIN out : about(n) = {a, b}}) = 1
           /\ \A n, m \in DOMAIN out : about(n) = about(m) => n = m

\* three stop areas of one name within 2 m of each other: three pairs, each
\* reported once, the first one from the stop the hash map yields first
C20_Witness ==
    /\ rule_in # <<>> /\ rule_in[1] = "duplicate_stops" /\ rule_out # <<>>
    /\ \A id \in DOMAIN rule_in[2].stops :
        /\ rule_in[2].stops[id].location_type = "StopArea"
        /\ rule_in[2].stops[id].name = <<"name", "Stop", 1>>
        /\ rule_in[2].stops[id].latitude \in {Some(0), Some(2)}
    /\ Len(Unwrap(rule_out)) = 3
    /\ Unwrap(rule_out)[1].object_id = <<"Stop", 3>>

---------------------------------------------------------------------------
(* validators/stop_times.rs *)

MAX_TRIPS == 20
MaxTripStopTimes == 2 \* stop times of a trip given to the rule

\* a trip with its stop times; Display of a trip gives its name
StTrip(n, stop_times) ==
    [id |-> <<"Trip", n>>, object_type |-> "Trip", name |-> <<"name", "Trip", n>>,
     stop_times |-> stop_times]

StStopTime(stop, stop_sequence, arrival_time, departure_time) ==
    [stop |-> stop, stop_sequence |-> stop_sequence,
     arrival_time |-> arrival_time, departure_time |-> departure_time]

\* the stop times of the trips in the order of the two nested loops
StopTimeVisits(g, order) ==
    FlatMap(order, LAMBDA tid : [i \in DOMAIN g.trips[tid].stop_times |-> <<tid, i>>])

\* lines 18-40: the map from stop id to issue after the two nested loops
wrong_stops(g, order) ==
    LET visits == StopTimeVisits(g, order)
        f[i \in 0..Len(visits)] ==
            IF i = 0 THEN EmptyMap
            ELSE LET prev == f[i - 1]
                     trip == g.trips[visits[i][1]]
                     st == trip.stop_times[visits[i][2]]
                     issue == IF st.stop.id \in DOMAIN prev THEN prev[st.stop.id]
                              ELSE WithDetails(
                                     IssueNewWithObj(Warning, "InvalidStopLocationTypeInTrip",
                                                     st.stop),
                                     <<"A {:?} cannot be referenced by a stop time",
                                       st.stop.location_type>>)
                 IN IF st.stop.location_type # "StopPoint"
                    THEN Insert(prev, st.stop.id,
                                IF Len(issue.related_objects) < MAX_TRIPS
                                THEN PushRelatedObject(issue, trip) ELSE issue)
                    ELSE prev
    IN f[Len(visits)]

\* wrong_stops.into_values(), for one order of the trips and one of the map
check_location_type(g, order, values_order) ==
    LET map == wrong_stops(g, order)
    IN [i \in DOMAIN values_order |-> map[values_order[i]]]

\* lines 46-74
check_valid_stop_sequence(g, order) ==
    FlatMap(order, LAMBDA tid :
        LET trip == g.trips[tid]
            st == trip.stop_times
            same == FlatMap([i \in 1..Max(Len(st) - 1, 0) |-> i], LAMBDA i :
                        IF st[i].stop_sequence = st[i + 1].stop_sequence
                        THEN <<st[i], st[i + 1]>> ELSE <<>>)
            push[i \in 0..Len(same)] ==
                IF i = 0 THEN IssueNewWithObj(Error, "DuplicateStopSequence", trip)
                ELSE PushRelatedObject(push[i - 1], same[i].stop)
        IN IF same # <<>> THEN <<push[Len(same)]>> ELSE <<>>)

\* lines 76-96
check_times_increase(g, order) ==
    FlatMap(order, LAMBDA tid :
        LET trip == g.trips[tid]
        IN FlatMap(trip.stop_times, LAMBDA st :
            IF /\ IsSome(st.arrival_time) /\ IsSome(st.departure_time)
               /\ Unwrap(st.arrival_time) > Unwrap(st.departure_time)
            THEN <<WithDetails(IssueNewWithObj(Warning, "NegativeStopDuration", trip),
                               <<"Departure time before arrival time at stop sequence {}",
                                 st.stop_sequence>>)>>
            ELSE <<>>))

\* lines 10-15, for one order of gtfs.trips and one of the values of wrong_stops
stop_times_validate(g, order, values_order) ==
    check_location_type(g, order, values_order)
        \o check_valid_stop_sequence(g, order)
        \o check_times_increase(g, order)

\* a stop point, a stop area and a station entrance
StStops ==
    << Stop(1, "StopPoint", None, None, None, "InformationNotAvailable"),
       Stop(2, "StopArea", None, None, None, "InformationNotAvailable"),
       Stop(3, "StationEntrance", None, None, None, "InformationNotAvailable") >>

\* up to n stop times over the three stops; the sequence numbers all differ or are
\* all equal, and the vehicle leaves each stop when it arrives or a minute before
StPaths(n) ==
    UNION { { [i \in 1..len |->
                StStopTime(StStops[walk[i]], IF same THEN 1 ELSE i,
                           Some(60 * i), Some(60 * i - early))] :
              walk \in [1..len -> DOMAIN StStops],
              same \in BOOLEAN, early \in {0, 60} } :
            len \in 0..n }

\* two trips, or one trip that stops MAX_TRIPS or MAX_TRIPS + 1 times at the stop area
StFeeds(n) ==
    { [trips |-> MapById(<<StTrip(1, p1), StTrip(2, p2)>>)] :
        p1 \in StPaths(n),
        p2 \in {p \in StPaths(n) :
                    \A i \in DOMAIN p : p[i].arrival_time = p[i].departure_time} }
    \cup { [trips |-> MapById(<<StTrip(1, [i \in 1..len |->
                                    StStopTime(StStops[2], i, Some(60 * i), Some(60 * i))])>>)] :
            len \in {MAX_TRIPS, MAX_TRIPS + 1} }

StopTimesInit ==
    /\ rule_in \in {<<"stop_times", g>> : g \in StFeeds(MaxTripStopTimes)}
    /\ rule_out = <<>>

StopTimesValidate ==
    /\ rule_in # <<>> /\ rule_in[1] = "stop_times" /\ rule_out = <<>>
    /\ \E order \in Orders(DOMAIN rule_in[2].trips) :
        \E values_order \in Orders(DOMAIN wrong_stops(rule_in[2], order)) :
            rule_out' = Some(stop_times_validate(rule_in[2], order, values_order))
    /\ UNCHANGED <<rule_in, orchVars, speedVars, kindVars>>

InitStopTimes == StopTimesInit /\ OrchIdle /\ SpeedIdle /\ KindIdle
NextStopTimes == StopTimesValidate
SpecStopTimes == InitStopTimes /\ [][NextStopTimes]_vars

\* C21: check_location_type emits exactly one InvalidStopLocationTypeInTrip
\* Warning per distinct stop that some stop time references and whose location
\* type is not StopPoint; its related objects are min(20, n) trips, n being the
\* number of trips that reference the stop, each such trip listed once.
C21_OneIssuePerWrongStop ==
    (rule_in # <<>> /\ rule_in[1] = "stop_times" /\ rule_out # <<>>) =>
        LET out == SelectSeq(Unwrap(rule_out),
                        LAMBDA issue : issue.issue_type = "InvalidStopLocationTypeInTrip")
            trips == rule_in[2].trips
            referencing(id) ==
                {tid \in DOMAIN trips :
                    \E i \in DOMAIN trips[tid].stop_times : trips[tid].stop_times[i].stop.id = id}
            wrong == {s.id : s \in {x \in Range(StStops) :
                        x.location_type # "StopPoint" /\ referencing(x.id) # {}}}
        IN /\ \A n \in DOMAIN out :
                /\ out[n].severity = Warning
                /\ out[n].object_id \in wrong
                /\ Len(out[n].related_objects)
                        = Min(MAX_TRIPS, Cardinality(referencing(out[n].object_id)))
                /\ \A k \in DOMAIN out[n].related_objects :
                        /\ out[n].related_objects[k].object_type = Some("Trip")
                        /\ out[n].related_objects[k].id \in referencing(out[n].object_id)
                /\ \A j, k \in DOMAIN out[n].related_objects :
                        j # k => out[n].related_objects[j].id # out[n].related_objects[k].id
           /\ \A id \in wrong : Cardinality({n \in DOMAIN out : out[n].object_id = id}) = 1

---------------------------------------------------------------------------
(* validators/unusable_trip.rs *)

\* lines 12-18: the ids of the stops seen until two differ
first_stops(trip) ==
    LET f[i \in 0..Len(trip.stop_times)] ==
            IF i = 0 THEN {}
            ELSE LET prev == f[i - 1]
                 IN IF Cardinality(prev) > 1 THEN prev
                    ELSE prev \cup {trip.stop_times[i].stop.id}
    IN f[Len(trip.stop_times)]

mk_issue(trip) == IssueNewWithObj(Warning, "UnusableTrip", trip)

\* validate, for one order of the values of gtfs.trips
unusable_trip_validate(g, order) ==
    FlatMap(order, LAMBDA tid :
        IF Cardinality(first_stops(g.trips[tid])) < 2
        THEN <<mk_issue(g.trips[tid])>> ELSE <<>>)

UnusableInit ==
    /\ rule_in \in {<<"unusable_trip", g>> : g \in StFeeds(MaxTripStopTimes)}
    /\ rule_out = <<>>

UnusableTrip ==
    /\ rule_in # <<>> /\ rule_in[1] = "unusable_trip" /\ rule_out = <<>>
    /\ \E order \in Orders(DOMAIN rule_in[2].trips) :
        rule_out' = Some(unusable_trip_validate(rule_in[2], order))
    /\ UNCHANGED <<rule_in, orchVars, speedVars, kindVars>>

InitUnusable == UnusableInit /\ OrchIdle /\ SpeedIdle /\ KindIdle
NextUnusable == UnusableTrip
SpecUnusable == InitUnusable /\ [][NextUnusable]_vars

\* C22: unusable_trip emits exactly one UnusableTrip issue, of severity Error
\* and with the trip id as object_id, for each trip whose stop times reference
\* fewer than 2 distinct stops (no stop time, one stop time, or several at the
\* same stop), and no issue for any other trip.
C22_UnusableTripError ==
    (rule_in # <<>> /\ rule_in[1] = "unusable_trip" /\ rule_out # <<>>) =>
        LET out == Unwrap(rule_out)
            trips == rule_in[2].trips
            unusable == {tid \in DOMAIN trips :
                            Cardinality({trips[tid].stop_times[i].stop.id :
                                            i \in DOMAIN trips[tid].stop_times}) < 2}
        IN /\ \A n \in DOMAIN out :
                /\ out[n].issue_type = "UnusableTrip"
                /\ out[n].severity = Error
                /\ out[n].object_id \in unusable
           /\ \A tid \in unusable : Cardinality({n \in DOMAIN out : out[n].object_id = tid}) = 1

---------------------------------------------------------------------------
(* validators/stops.rs.  In this section a coordinate is a whole number of *)
(* degrees.                                                                *)

MaxParentStops == 2   \* stops of a feed whose parent stations vary

LocationTypes ==
    {"StopPoint", "StopArea", "StationEntrance", "GenericNode", "BoardingArea", "Unknown"}

make_invalid_coord_issue(o) == IssueNewWithObj(Error, "InvalidCoordinates", o)
make_missing_coord_issue(o) == IssueNewWithObj(Warning, "MissingCoordinates", o)
make_invalid_parent_issue(o) == IssueNewWithObj(Warning, "InvalidStopParent", o)

\* lines 113-118: the two bound names are swapped in the source, the test is symmetric
has_coord(stop) ==
    IF IsSome(stop.latitude) /\ IsSome(stop.longitude)
    THEN Unwrap(stop.latitude) # 0 /\ Unwrap(stop.longitude) # 0
    ELSE FALSE

\* lines 98-106: the arms of the match, tried in order
coord_details(longitude, latitude) ==
    IF longitude = None /\ latitude = None THEN "Latitude and longitude are missing"
    ELSE IF IsSome(longitude) /\ IsSome(latitude)
            /\ Unwrap(longitude) = 0 /\ Unwrap(latitude) = 0
    THEN "Latitude and longitude are missing"
    ELSE IF IsSome(longitude) /\ Unwrap(longitude) = 0 THEN "Longitude is missing"
    ELSE IF IsSome(latitude) /\ Unwrap(latitude) = 0 THEN "Latitude is missing"
    ELSE "Coordinates are ok"

\* lines 91-111
check_coord(stop) ==
    IF /\ stop.location_type # "GenericNode"
       /\ stop.location_type # "BoardingArea"
       /\ ~has_coord(stop)
    THEN Some(WithDetails(make_missing_coord_issue(stop),
                          coord_details(stop.longitude, stop.latitude)))
    ELSE None

\* lines 137-142
valid_coord(stop) ==
    IF IsSome(stop.longitude) /\ IsSome(stop.latitude)
    THEN /\ -180 <= Unwrap(stop.longitude) /\ Unwrap(stop.longitude) <= 180
         /\ -90 <= Unwrap(stop.latitude) /\ Unwrap(stop.latitude) <= 90
    ELSE FALSE

\* lines 11-19, for one order of the values of gtfs.stops
validate_coord(g, order) ==
    LET stops == [i \in DOMAIN order |-> g.stops[order[i]]]
        missing_coord == FlatMap(stops, LAMBDA stop : check_coord(stop))
        valid == SelectSeq(stops, LAMBDA stop : ~valid_coord(stop))
    IN missing_coord \o [i \in DOMAIN valid |-> make_invalid_coord_issue(valid[i])]

\* the variant that wants a stop area above a boarding area
parent_details_area_above_boarding(stop, parent) ==
    CASE stop.location_type = "StopArea" ->
            IF IsSome(stop.parent_station)
            THEN Some("it's not valid for a stop area to have a parent station") ELSE None
      [] stop.location_type = "StopPoint" ->
            IF IsSome(parent) /\ Unwrap(parent).location_type # "StopArea"
            THEN Some("The parent of a stop point should be a stop area") ELSE None
      [] stop.location_type \in {"GenericNode", "StationEntrance"} ->
            IF (IF IsSome(parent) THEN Unwrap(parent).location_type # "StopArea" ELSE TRUE)
            THEN Some("The parent of a generic node or an entrance should be a stop area")
            ELSE None
      [] stop.location_type = "BoardingArea" ->
            IF (IF IsSome(parent) THEN Unwrap(parent).location_type # "StopArea" ELSE TRUE)
            THEN Some("The parent of a boarding area should be a stop point") ELSE None
      [] OTHER -> None

\* lines 37-77: the details of the issue of a stop, parent being the stop its
\* parent_station names when the feed has it
parent_details(stop, parent) ==
    CASE stop.location_type = "StopArea" ->
            IF IsSome(stop.parent_station)
            THEN Some("it's not valid for a stop area to have a parent station") ELSE None
      [] stop.location_type = "StopPoint" ->
            IF IsSome(parent) /\ Unwrap(parent).location_type # "StopArea"
            THEN Some("The parent of a stop point should be a stop area") ELSE None
      [] stop.location_type \in {"GenericNode", "StationEntrance"} ->
            IF (IF IsSome(parent) THEN Unwrap(parent).location_type # "StopArea" ELSE TRUE)
            THEN Some("The parent of a generic node or an entrance should be a stop area")
            ELSE None
      [] stop.location_type = "BoardingArea" ->
            IF (IF IsSome(parent) THEN Unwrap(parent).location_type # "StopPoint" ELSE TRUE)
            THEN Some("The parent of a boarding area should be a stop point") ELSE None
      [] OTHER -> None

\* lines 23-89, for one order of gtfs.stops
validate_parent_id(g, order) ==
    FlatMap(order, LAMBDA id :
        LET stop == g.stops[id]
            parent == IF IsSome(stop.parent_station)
                         /\ Unwrap(stop.parent_station) \in DOMAIN g.stops
                      THEN Some(g.stops[Unwrap(stop.parent_station)]) ELSE None
            details == parent_details(stop, parent)
            issue == WithDetails(make_invalid_parent_issue(stop), Unwrap(details))
        IN IF IsSome(details)
           THEN <<IF IsSome(parent) THEN PushRelatedObject(issue, Unwrap(parent)) ELSE issue>>
           ELSE <<>>)

\* lines 4-9
stops_validate(g, order) == validate_coord(g, order) \o validate_parent_id(g, order)

\* absent, zero, inside the range, on its ends and one degree outside
Longitudes == {None, Some(-181), Some(-180), Some(0), Some(5), Some(180), Some(181)}
Latitudes == {None, Some(-91), Some(-90), Some(0), Some(5), Some(90), Some(91)}

\* a stop of any type anywhere beside a stop area, or n stops with valid
\* coordinates, each of any type and without parent, with a parent among the n
\* stops or with a parent the feed does not have
StopsFeeds(n) ==
    {[stops |-> MapById(<<Stop(1, t, lon, lat, None, "InformationNotAvailable"),
                          Stop(2, "StopArea", Some(5), Some(5), None,
                               "InformationNotAvailable")>>)] :
        t \in LocationTypes, lon \in Longitudes, lat \in Latitudes}
    \cup
    {[stops |-> [id \in {<<"Stop", i>> : i \in 1..n} |->
                    Stop(id[2], c[id[2]][1], Some(5), Some(5), c[id[2]][2],
                         "InformationNotAvailable")]] :
        c \in [1..n -> LocationTypes
                        \X ({None, Some(<<"Stop", 9>>)} \cup {Some(<<"Stop", i>>) : i \in 1..n})]}

StopsInit ==
    /\ rule_in \in {<<"stops", g>> : g \in StopsFeeds(MaxParentStops)}
    /\ rule_out = <<>>

StopsValidate ==
    /\ rule_in # <<>> /\ rule_in[1] = "stops" /\ rule_out = <<>>
    /\ \E order \in Orders(DOMAIN rule_in[2].stops) :
        rule_out' = Some(stops_validate(rule_in[2], order))
    /\ UNCHANGED <<rule_in, orchVars, speedVars, kindVars>>

InitStops == StopsInit /\ OrchIdle /\ SpeedIdle /\ KindIdle
NextStops == StopsValidate
SpecStops == InitStops /\ [][NextStops]_vars

StopsRan == rule_in # <<>> /\ rule_in[1] = "stops" /\ rule_out # <<>>

\* the issues of one type about one stop
StopIssues(issue_type, id) ==
    SelectSeq(Unwrap(rule_out),
              LAMBDA issue : issue.issue_type = issue_type /\ issue.object_id = id)

\* a coordinate that is missing or zero
Lacks(coordinate) == coordinate = None \/ coordinate = Some(0)

\* C23: the stops rule emits exactly one MissingCoordinates Warning for a stop
\* iff its location type is neither GenericNode nor BoardingArea and its
\* latitude or longitude is missing or zero; the details are 'Latitude is
\* missing', 'Longitude is missing' or 'Latitude and longitude are missing'
\* according to exactly which of the two coordinates is missing or zero.
C23_MissingCoordinates ==
    StopsRan =>
        \A id \in DOMAIN rule_in[2].stops :
            LET stop == rule_in[2].stops[id]
                found == StopIssues("MissingCoordinates", id)
                due == /\ stop.location_type \notin {"GenericNode", "BoardingArea"}
                       /\ (Lacks(stop.latitude) \/ Lacks(stop.longitude))
            IN /\ Len(found) = IF due THEN 1 ELSE 0
               /\ due =>
                    /\ found[1].severity = Warning
                    /\ found[1].details =
                         Some(IF Lacks(stop.latitude) /\ Lacks(stop.longitude)
                              THEN "Latitude and longitude are missing"
                              ELSE IF Lacks(stop.latitude) THEN "Latitude is missing"
                              ELSE "Longitude is missing")

\* C24: the stops rule emits an InvalidCoordinates Error for a stop exactly
\* when its longitude is outside [-180, 180] or its latitude outside [-90, 90];
\* a stop whose coordinates are absent is reported through MissingCoordinates
\* (or not at all for GenericNode and BoardingArea) and gets no
\* InvalidCoordinates issue.
C24_InvalidCoordinates ==
    StopsRan =>
        \A id \in DOMAIN rule_in[2].stops :
            LET stop == rule_in[2].stops[id]
                found == StopIssues("InvalidCoordinates", id)
                outside(coordinate, limit) ==
                    /\ IsSome(coordinate)
                    /\ (Unwrap(coordinate) < -limit \/ Unwrap(coordinate) > limit)
                due == outside(stop.longitude, 180) \/ outside(stop.latitude, 90)
            IN /\ Len(found) = IF due THEN 1 ELSE 0
               /\ due => found[1].severity = Error

\* C25: validate_parent_id emits exactly one InvalidStopParent Warning for a
\* stop iff it is a StopArea with a parent_station set, or a StopPoint whose
\* parent exists and is not a StopArea, or a GenericNode or StationEntrance
\* whose parent is unset, unknown or not a StopArea, or a BoardingArea whose
\* parent is unset, unknown or not a StopPoint; the parent is the single
\* related object exactly when the feed has it, and a StopPoint without parent
\* gets no issue.
C25_InvalidStopParent ==
    StopsRan =>
        \A id \in DOMAIN rule_in[2].stops :
            LET stops == rule_in[2].stops
                stop == stops[id]
                found == StopIssues("InvalidStopParent", id)
                known == IsSome(stop.parent_station)
                         /\ Unwrap(stop.parent_station) \in DOMAIN stops
                parent_is(t) == known /\ stops[Unwrap(stop.parent_station)].location_type = t
                due == \/ stop.location_type = "StopArea" /\ IsSome(stop.parent_station)
                       \/ stop.location_type = "StopPoint" /\ known /\ ~parent_is("StopArea")
                       \/ /\ stop.location_type \in {"GenericNode", "StationEntrance"}
                          /\ ~parent_is("StopArea")
                       \/ stop.location_type = "BoardingArea" /\ ~parent_is("StopPoint")
            IN /\ Len(found) = IF due THEN 1 ELSE 0
               /\ due =>
                    /\ found[1].severity = Warning
                    /\ IF known
                       THEN /\ Len(found[1].related_objects) = 1
                            /\ found[1].related_objects[1].id = Unwrap(stop.parent_station)
                            /\ found[1].related_objects[1].object_type = Some("Stop")
                       ELSE found[1].related_objects = <<>>
               /\ (stop.location_type = "StopPoint" /\ stop.parent_station = None)
                    => found = <<>>

\* a boarding area under an entrance whose own parent the feed does not have:
\* one issue with the parent attached and one without related object
C25_Witness ==
    /\ StopsRan
    /\ DOMAIN rule_in[2].stops = {<<"Stop", 1>>, <<"Stop", 2>>}
    /\ rule_in[2].stops[<<"Stop", 1>>].location_type = "BoardingArea"
    /\ rule_in[2].stops[<<"Stop", 1>>].parent_station = Some(<<"Stop", 2>>)
    /\ rule_in[2].stops[<<"Stop", 2>>].location_type = "StationEntrance"
    /\ rule_in[2].stops[<<"Stop", 2>>].parent_station = Some(<<"Stop", 9>>)
    /\ Len(StopIssues("InvalidStopParent", <<"Stop", 1>>)) = 1
    /\ StopIssues("InvalidStopParent", <<"Stop", 1>>)[1].related_objects[1].id = <<"Stop", 2>>
    /\ Len(StopIssues("InvalidStopParent", <<"Stop", 2>>)) = 1
    /\ StopIssues("InvalidStopParent", <<"Stop", 2>>)[1].related_objects = <<>>

---------------------------------------------------------------------------
(* visualization.rs on its own: one issue and one feed.  One unit of a     *)
(* coordinate is more than the error margin of 1e-7 degrees.               *)

MaxRelatedObjects == 2    \* related objects of the issue given to the enricher

\* the first stop at the origin, the second one anywhere around it or without
\* a coordinate
VizFeeds ==
    {[stops |-> MapById(<<Stop(1, "StopPoint", Some(0), Some(0), None,
                               "InformationNotAvailable"),
                          Stop(2, "StopPoint", lon, lat, None,
                               "InformationNotAvailable")>>)] :
        lon \in {None, Some(0), Some(1)}, lat \in {None, Some(0), Some(1)}}

\* what an issue may relate to: the second stop, a stop the feed does not
\* have, a route
VizRelated == {Obj("Stop", 2), Obj("Stop", 9), Obj("Route", 1)}

\* issues about the first stop, about a stop the feed does not have or about
\* a route, with up to n related objects and with or without details
VizIssues(n) ==
    {[IssueNew(Warning, "DuplicateStops", subject.id) EXCEPT
        !.object_type = object_type,
        !.object_name = Some(subject.name),
        !.details = details,
        !.related_objects =
            [i \in DOMAIN related |->
                [id |-> related[i].id, name |-> Some(related[i].name),
                 object_type |-> Some(related[i].object_type)]]] :
        subject \in {Obj("Stop", 1), Obj("Stop", 9)},
        object_type \in {None, Some("Stop"), Some("Route")},
        details \in {None, Some("details")},
        related \in UNION {[1..len -> VizRelated] : len \in 0..n}}

VizInit ==
    /\ rule_in \in {<<"visualization", <<issue, g>>>> :
                        issue \in VizIssues(MaxRelatedObjects), g \in VizFeeds}
    /\ rule_out = <<>>

GenerateIssueVisualization ==
    /\ rule_in # <<>> /\ rule_in[1] = "visualization" /\ rule_out = <<>>
    /\ rule_out' = Some(generate_issue_visualization(rule_in[2][1], rule_in[2][2]))
    /\ UNCHANGED <<rule_in, orchVars, speedVars, kindVars>>

InitViz == VizInit /\ OrchIdle /\ SpeedIdle /\ KindIdle
NextViz == GenerateIssueVisualization
SpecViz == InitViz /\ [][NextViz]_vars

\* C26: for a stop-typed issue the enricher produces one Point feature per
\* stop among the subject and the related objects of type Stop that the feed
\* has, followed by one LineString feature per related stop, from the subject
\* to it and carrying the details of the issue; the geometry of a line is
\* omitted only when the two stops coincide within the margin in both latitude
\* and longitude, so two stops of equal longitude and different latitudes do
\* get a line.
C26_PointsThenLines ==
    (rule_in # <<>> /\ rule_in[1] = "visualization" /\ rule_out # <<>>
        /\ rule_in[2][1].object_type = Some("Stop")) =>
        LET issue == rule_in[2][1]
            stops == rule_in[2][2].stops
            related == SelectSeq(issue.related_objects,
                                 LAMBDA o : o.object_type = Some("Stop"))
            points == SelectSeq(<<issue.object_id>> \o [i \in DOMAIN related |-> related[i].id],
                                LAMBDA id : id \in DOMAIN stops)
            ends == IF issue.object_id \in DOMAIN stops
                    THEN SelectSeq([i \in DOMAIN related |-> related[i].id],
                                   LAMBDA id : id \in DOMAIN stops)
                    ELSE <<>>
            located(s) == IsSome(s.longitude) /\ IsSome(s.latitude)
            features == Unwrap(Unwrap(rule_out)).features
        IN /\ IsSome(Unwrap(rule_out))
           /\ Len(features) = Len(points) + Len(ends)
           /\ \A i \in DOMAIN points :
                features[i].properties
                    = Some([id |-> points[i], name |-> stops[points[i]].name])
           /\ \A i \in DOMAIN ends :
                LET line == features[Len(points) + i]
                    from == stops[issue.object_id]
                    to == stops[ends[i]]
                IN /\ line.properties = IF IsSome(issue.details)
                                        THEN Some([details |-> Unwrap(issue.details)])
                                        ELSE None
                   /\ (located(from) /\ located(to)) =>
                        IF from.longitude = to.longitude /\ from.latitude = to.latitude
                        THEN line.geometry = None
                        ELSE line.geometry =
                                Some([type |-> "LineString",
                                      coordinates |->
                                        <<<<Unwrap(from.longitude), Unwrap(from.latitude)>>,
                                          <<Unwrap(to.longitude), Unwrap(to.latitude)>>>>])

---------------------------------------------------------------------------
(* duration_distance.rs: a trip whose route the feed does not have *)

\* the trips of the validated feed whose route_id names no route
UnroutedTrips ==
    {tid \in DOMAIN sp_gtfs.trips : sp_gtfs.trips[tid].route_id \notin DOMAIN sp_gtfs.routes}

\* the keys that the pairs of stop times of a trip with a known route give rise to
TripKeys(tid) ==
    LET st == sp_gtfs.trips[tid].stop_times
        route_type == sp_gtfs.routes[sp_gtfs.trips[tid].route_id].route_type
        kind(i) ==
            LET dd == distance_and_duration(st[i], st[i + 1])
            IN IF IsSome(dd)
               THEN issue_kind(Unwrap(dd)[1], Unwrap(dd)[2], route_type, sp_rules)
               ELSE None
    IN {speed_key(st[i], st[i + 1], Unwrap(kind(i))[2], Unwrap(kind(i))[1]) :
            i \in {j \in 1..(Len(st) - 1) : IsSome(kind(j))}}

RoutedKeys == UNION {TripKeys(tid) : tid \in DOMAIN sp_gtfs.trips \ UnroutedTrips}

\* C27 as stated: the speed rule returns a list of issues for every feed, and
\* for a trip whose route_id matches no route it contributes no issue instead
\* of an error issue, the issues found for the other trips being reported.
C27_NoIssueForUnknownRoute ==
    (sp_pc = "done" /\ UnroutedTrips # {}) =>
        /\ \A n \in DOMAIN Unwrap(sp_issues) :
                /\ Unwrap(sp_issues)[n].severity # Fatal
                /\ Unwrap(sp_issues)[n].issue_type # "InvalidReference"
        /\ \A k \in RoutedKeys :
                \E n \in DOMAIN Unwrap(sp_issues) :
                    LET issue == Unwrap(sp_issues)[n]
                    IN /\ issue.issue_type = k[3]
                       /\ {issue.object_id, issue.related_objects[1].id} = {k[1], k[2]}

\* C27, amended: the speed rule returns a list of issues for every feed; when
\* the route_id of some trip matches no route the list is exactly one Fatal
\* InvalidReference issue whose object_id is the text of the error, without
\* object type, related object or details, and none of the issues found for
\* the other trips is reported; when every route is known no issue is Fatal.
C27_UnknownRouteOneFatalIssue ==
    sp_pc = "done" =>
        /\ IsSome(sp_issues)
        /\ IF UnroutedTrips # {}
           THEN \E tid \in UnroutedTrips :
                    Unwrap(sp_issues) =
                        <<[severity |-> Fatal, issue_type |-> "InvalidReference",
                           object_id |-> <<"The id is not known",
                                           sp_gtfs.trips[tid].route_id[2]>>,
                           object_type |-> None, object_name |-> None,
                           related_objects |-> <<>>, details |-> None,
                           related_file |-> None, geojson |-> None, rule |-> ""]>>
           ELSE \A n \in DOMAIN Unwrap(sp_issues) :
                    /\ Unwrap(sp_issues)[n].severity \in {Warning, Information}
                    /\ Unwrap(sp_issues)[n].issue_type # "InvalidReference"

\* the first trip runs between two stops 5 m apart on a known route, the
\* second trip names a route the feed does not have: one Fatal issue is all
\* that is reported
C27_Witness ==
    /\ sp_pc = "done"
    /\ UnroutedTrips = {<<"Trip", 2>>}
    /\ RoutedKeys # {}
    /\ Len(Unwrap(sp_issues)) = 1
    /\ Unwrap(sp_issues)[1].severity = Fatal
    /\ Unwrap(sp_issues)[1].issue_type = "InvalidReference"

---------------------------------------------------------------------------
(* metadatas.rs and validators/calendar.rs: the dates of a feed.  A date   *)
(* is the number of its day.                                               *)

MaxCalendarRows == 2  \* rows of calendar.txt and of calendar_dates.txt
MaxDay == 3           \* last day of the dates of calendar_dates.txt

\* validators/calendar.rs, lines 3-9
calendar_validate(g) ==
    IF Cardinality(DOMAIN g.calendar) + Cardinality(DOMAIN g.calendar_dates) = 0
    THEN <<IssueNew(Warning, "NoCalendar", EmptyId)>>
    ELSE <<>>

\* a file that is absent, unreadable, or read with up to n of the rows
OptionalFile(n, Rows) ==
    {None, Some(Err("impossible to read csv file"))}
    \cup {Some(Ok(rows)) : rows \in UNION {[1..len -> Rows] : len \in 0..n}}

\* the feed of one agency with every calendar.txt of up to n services, each
\* running between two of the first two days in either order, and every
\* calendar_dates.txt of up to n exceptions of the first service
DateFeeds(n) ==
    {[FeedSingleAgency EXCEPT
        !.calendar =
            IF IsSome(c) /\ IsOk(Unwrap(c))
            THEN Some(Ok([i \in DOMAIN Val(Unwrap(c)) |->
                            Calendar(i, Val(Unwrap(c))[i][1], Val(Unwrap(c))[i][2])]))
            ELSE c,
        !.calendar_dates = cd] :
        c \in OptionalFile(n, (1..2) \X (1..2)),
        cd \in OptionalFile(n, {CalendarDate(1, date, exception_type) :
                                    date \in 1..MaxDay,
                                    exception_type \in {"Added", "Deleted"}})}

DatesInit ==
    /\ rule_in \in {<<"dates", rgtfs>> : rgtfs \in DateFeeds(MaxCalendarRows)}
    /\ rule_out = <<>>

\* extract_metadata on the raw feed and, when the linked model can be built,
\* the calendar rule on it
ExtractDates ==
    /\ rule_in # <<>> /\ rule_in[1] = "dates" /\ rule_out = <<>>
    /\ rule_out' = Some([metadata |-> extract_metadata(rule_in[2]),
                         calendar |-> IF Readable(rule_in[2])
                                      THEN Some(calendar_validate(GtfsOf(rule_in[2])))
                                      ELSE None])
    /\ UNCHANGED <<rule_in, orchVars, speedVars, kindVars>>

InitDates == DatesInit /\ OrchIdle /\ SpeedIdle /\ KindIdle
NextDates == ExtractDates
SpecDates == InitDates /\ [][NextDates]_vars

\* the rows of an optional file, none when it is absent or unreadable
ReadRows(file) == IF IsSome(file) /\ IsOk(Unwrap(file)) THEN Range(Val(Unwrap(file))) ELSE {}

\* C28: metadata.start_date and end_date are the minimum and the maximum over
\* all start_date and end_date values of calendar and all dates of
\* calendar_dates of exception type Added (removed exceptions ignored,
\* unreadable or absent files counted as empty); they are both absent or both
\* present with start_date <= end_date.  With calendar absent and
\* calendar_dates populated the range derives from calendar_dates alone and
\* the calendar rule emits no NoCalendar, which is emitted iff the model has
\* zero calendars and zero calendar_dates.
C28_DateRange ==
    (rule_in # <<>> /\ rule_in[1] = "dates" /\ rule_out # <<>>) =>
        LET md == Unwrap(rule_out).metadata
            calendars == ReadRows(rule_in[2].calendar)
            exceptions == ReadRows(rule_in[2].calendar_dates)
            added == {cd.date : cd \in {x \in exceptions : x.exception_type = "Added"}}
            days == {c.start_date : c \in calendars} \cup {c.end_date : c \in calendars}
                        \cup added
            first == CHOOSE d \in days : \A e \in days : d <= e
            last == CHOOSE d \in days : \A e \in days : d >= e
        IN /\ IF days = {}
              THEN md.start_date = None /\ md.end_date = None
              ELSE /\ md.start_date = Some(<<"date", first>>)
                   /\ md.end_date = Some(<<"date", last>>)
                   /\ ParseDate(Unwrap(md.start_date)) <= ParseDate(Unwrap(md.end_date))
           /\ (rule_in[2].calendar = None /\ added # {}) =>
                /\ md.start_date = Some(<<"date", CHOOSE d \in added : \A e \in added : d <= e>>)
                /\ md.end_date = Some(<<"date", CHOOSE d \in added : \A e \in added : d >= e>>)
           /\ IsSome(Unwrap(rule_out).calendar) =>
                /\ Unwrap(Unwrap(rule_out).calendar) =
                        IF calendars = {} /\ exceptions = {}
                        THEN <<[severity |-> Warning, issue_type |-> "NoCalendar",
                                object_id |-> <<>>, object_type |-> None,
                                object_name |-> None, related_objects |-> <<>>,
                                details |-> None, related_file |-> None,
                                geojson |-> None, rule |-> ""]>>
                        ELSE <<>>
                /\ (rule_in[2].calendar = None /\ exceptions # {})
                        => Unwrap(Unwrap(rule_out).calendar) = <<>>

\* calendar.txt absent, calendar_dates.txt with day 3 added and day 1 removed:
\* the range is day 3 to day 3 and there is no NoCalendar
C28_Witness ==
    /\ rule_in # <<>> /\ rule_in[1] = "dates" /\ rule_out # <<>>
    /\ rule_in[2].calendar = None
    /\ rule_in[2].calendar_dates
            = Some(Ok(<<CalendarDate(1, 3, "Added"), CalendarDate(1, 1, "Deleted")>>))
    /\ Unwrap(rule_out).metadata.start_date = Some(<<"date", 3>>)
    /\ Unwrap(rule_out).metadata.end_date = Some(<<"date", 3>>)
    /\ Unwrap(rule_out).calendar = Some(<<>>)

---------------------------------------------------------------------------
(* metadatas.rs: networks_start_end_dates on its own *)

MaxNetworkTrips == 2  \* trips of the feed given to enrich_with_advanced_infos

\* one agency, two agencies, or three of which the last two share their name
NetworkAgencies ==
    {<<Agency(1)>>, <<Agency(1), Agency(2)>>,
     <<Agency(1), Agency(2), [Agency(3) EXCEPT !.name = Agency(2).name]>>}

\* the first service is in calendar.txt and runs from day 1 to day 2 or from
\* day 4 to day 3; the second one runs from day 2 to day 3 with day 5 added
\* and day 9 removed, or has days 5 and 6 added and is not in calendar.txt
NetworkCalendars ==
    {[calendar |-> Some(Ok(<<Calendar(1, first[1], first[2])>> \o second[1])),
      calendar_dates |-> Some(Ok(second[2]))] :
        first \in {<<1, 2>>, <<4, 3>>},
        second \in {<<<<Calendar(2, 2, 3)>>,
                      <<CalendarDate(2, 5, "Added"), CalendarDate(2, 9, "Deleted")>>>>,
                    <<<<>>,
                      <<CalendarDate(2, 6, "Added"), CalendarDate(2, 5, "Added")>>>>}}

\* each agency has one route; up to n trips, each on the route of an agency
\* with one of the two services or with a service the feed does not have, or
\* on a route the feed does not have
NetworkFeeds(n) ==
    {[agencies |-> Ok(agencies),
      stops |-> FeedSingleAgency.stops,
      routes |-> Ok([i \in DOMAIN agencies |-> Route(i, agencies[i].id, "Bus")]),
      trips |-> Ok([i \in DOMAIN trips |-> Trip(i, trips[i][1], trips[i][2])]),
      calendar |-> dates.calendar,
      calendar_dates |-> dates.calendar_dates] :
        agencies \in NetworkAgencies,
        dates \in NetworkCalendars,
        trips \in UNION {[1..len -> ((1..3) \X {1, 2, 9}) \cup {<<9, 1>>}] : len \in 0..n}}

NetworksInit ==
    /\ rule_in \in {<<"networks", rgtfs>> :
                        rgtfs \in {f \in NetworkFeeds(MaxNetworkTrips) :
                                    \A i \in DOMAIN Val(f.trips) :
                                        Val(f.trips)[i].route_id[2] \in DOMAIN Val(f.agencies) \cup {9}}}
    /\ rule_out = <<>>

\* extract_metadata on the raw feed, then enrich_with_advanced_infos on the model
EnrichWithAdvancedInfos ==
    /\ rule_in # <<>> /\ rule_in[1] = "networks" /\ rule_out = <<>>
    /\ LET g == GtfsOf(rule_in[2])
       IN \E trip_order \in Orders(DOMAIN g.trips), agency_order \in Orders(AgencyIds(g)) :
            rule_out' = Some(enrich_with_advanced_infos(extract_metadata(rule_in[2]), g,
                                                        trip_order, agency_order))
    /\ UNCHANGED <<rule_in, orchVars, speedVars, kindVars>>

InitNetworks == NetworksInit /\ OrchIdle /\ SpeedIdle /\ KindIdle
NextNetworks == EnrichWithAdvancedInfos
SpecNetworks == InitNetworks /\ [][NextNetworks]_vars

\* the interval of a service: its calendar range extended by its added dates
ServiceDays(rgtfs, sid) ==
    [starts |-> {c.start_date : c \in {x \in ReadRows(rgtfs.calendar) : x.id = sid}}
                \cup {cd.date : cd \in {x \in ReadRows(rgtfs.calendar_dates) :
                                            x.service_id = sid /\ x.exception_type = "Added"}},
     ends |-> {c.end_date : c \in {x \in ReadRows(rgtfs.calendar) : x.id = sid}}
              \cup {cd.date : cd \in {x \in ReadRows(rgtfs.calendar_dates) :
                                        x.service_id = sid /\ x.exception_type = "Added"}}]

\* the known services that the trips of the routes of an agency use
AgencyServices(rgtfs, agency) ==
    {t.service_id : t \in {x \in Range(Val(rgtfs.trips)) :
        /\ \E r \in Range(Val(rgtfs.routes)) : r.id = x.route_id /\ r.agency_id = agency.id
        /\ ServiceDays(rgtfs, x.service_id).starts # {}}}

\* C29: after enrich_with_advanced_infos, networks_start_end_dates has one
\* entry per agency of the feed that has at least one trip with a known
\* service: in a feed with exactly one agency the single entry is keyed by
\* the name of the agency and equals the global start_date and end_date; in a
\* feed with several agencies the entry of each agency is the interval from
\* the earliest start to the latest end over all services (calendar ranges
\* extended by added calendar_dates) that the trips of its routes use, trips
\* whose route lookup fails being ignored.
C29_NetworksStartEndDates ==
    (rule_in # <<>> /\ rule_in[1] = "networks" /\ rule_out # <<>>) =>
        LET rgtfs == rule_in[2]
            md == Unwrap(rule_out)
            entries == Unwrap(md.networks_start_end_dates)
            agencies == Val(rgtfs.agencies)
            served == {i \in DOMAIN agencies : AgencyServices(rgtfs, agencies[i]) # {}}
            expected(i) ==
                LET days == [starts |-> UNION {ServiceDays(rgtfs, sid).starts :
                                                sid \in AgencyServices(rgtfs, agencies[i])},
                             ends |-> UNION {ServiceDays(rgtfs, sid).ends :
                                                sid \in AgencyServices(rgtfs, agencies[i])}]
                IN Interval(CHOOSE d \in days.starts : \A e \in days.starts : d <= e,
                            CHOOSE d \in days.ends : \A e \in days.ends : d >= e)
        IN IF Len(agencies) = 1
           THEN /\ DOMAIN entries = {agencies[1].name}
                /\ entries[agencies[1].name] =
                        IF IsSome(md.start_date)
                        THEN Some(Interval(ParseDate(Unwrap(md.start_date)),
                                           ParseDate(Unwrap(md.end_date))))
                        ELSE None
           ELSE /\ Cardinality(DOMAIN entries) = Cardinality(served)
                /\ \A i \in served :
                        /\ agencies[i].name \in DOMAIN entries
                        /\ entries[agencies[i].name] = Some(expected(i))

---------------------------------------------------------------------------
(* validate.rs: the shape of the Response of validate_and_metadata *)

\* C30: in every Response built by validate_and_metadata the keys of
\* metadata.issues_count are the keys of validations, every recorded count
\* is at least 1, every issue stored under key t has issue_type t, all the
\* issues under one key have the same severity, and for max_issues >= 1 no
\* bucket is empty, while with max_issues = 0 the keys remain with empty
\* buckets and positive counts.
C30_ResponseShape ==
    (pc = "done" /\ IsOk(raw_gtfs)) =>
        LET validations == Unwrap(response).validations
            issues_count == Unwrap(Unwrap(response).metadata).issues_count
        IN /\ IsSome(Unwrap(response).metadata)
           /\ DOMAIN issues_count = DOMAIN validations
           /\ \A t \in DOMAIN issues_count : issues_count[t] >= 1
           /\ \A t \in DOMAIN validations :
                /\ \A i \in DOMAIN validations[t] : validations[t][i].issue_type = t
                /\ \A i, j \in DOMAIN validations[t] :
                        validations[t][i].severity = validations[t][j].severity
                /\ IF max_issues >= 1 THEN validations[t] # <<>> ELSE validations[t] = <<>>

\* a Response with two issues of two rules under one key next to an issue of
\* another type, and a Response with max_issues = 0 and a count of 2
C30_Witness ==
    /\ pc = "done" /\ IsOk(raw_gtfs)
    /\ \/ /\ max_issues >= 1
          /\ \E t \in DOMAIN Unwrap(response).validations :
                LET bucket == Unwrap(response).validations[t]
                IN Len(bucket) = 2 /\ bucket[1].rule # bucket[2].rule
       \/ /\ max_issues = 0
          /\ \E t \in DOMAIN Unwrap(response).validations :
                /\ Unwrap(response).validations[t] = <<>>
                /\ Unwrap(Unwrap(response).metadata).issues_count[t] = 2

============================================================================
